---- MODULE Spec2Model ----
(***************************************************************************)
(* Metric Delta Engine of the code-quality comparison scripts               *)
(* (src/analytics.py, src/generate.py).                                     *)
(*                                                                          *)
(* Representation.                                                          *)
(*   - A Python string is a sequence of one-character strings:              *)
(*     "stg" is <<"s","t","g">>, "" is <<>>.                                *)
(*   - A missing string cell (pandas NaN in an object column) is NaNStr.    *)
(*   - A numeric cell is <<v>>; a missing numeric cell (NaN) is NaN = <<>>. *)
(*   - A DataFrame is [cols |-> set of column names, rows |-> sequence of   *)
(*     functions from cols to cells].                                       *)
(***************************************************************************)
EXTENDS Integers, Sequences, FiniteSets, TLC

VARIABLES
    pc,                      \* position of the run
    first_month,             \* main: first_month / compare_metrics: argument 1
    second_month,            \* main: second_month / compare_metrics: argument 2
    first_filtered,          \* main: first_filtered
    second_filtered,         \* main: second_filtered
    first_metric_filtered,   \* main: first_metric_filtered (after the call)
    second_metric_filtered,  \* main: second_metric_filtered (after the call)
    metric_idx,              \* main: position of the for loop over metrics
    metric_name,             \* compare_metrics: metric_name of the last call
    min_diff,                \* compare_metrics: min_diff of the last call
    passed_first,            \* first frame of the last call, as it was on entry
    passed_second,           \* second frame of the last call, as it was on entry
    result_df,               \* compare_metrics: the returned frame (its rows)
    all_results,             \* main: all_results, metric -> rows
    exports,                 \* the per-metric workbooks written so far
    errors,                  \* the exceptions raised in the run so far
    exit_code,               \* exit code of the process (NotExited: running)
    calls,                   \* clean_repo_name: the arguments of the calls made
    frames,                  \* clean_repo_name: calls that have not returned
    cleaned,                 \* clean_repo_name: the value returned
    token,                   \* fetch script: MY_GITHUB_TOKEN is set
    g,                       \* fetch script: the GitHub client
    issues,                  \* fetch script: the issues the repository returns
    issue_idx,               \* fetch script: issues the for loop has taken
    issues_data,             \* fetch script: issues_data
    devops_team_members,     \* fetch script: devops_team_members
    output,                  \* fetch script: the JSON file written
    argv,                    \* fetch script: sys.argv[1:]
    current_date,            \* fetch script: datetime.now(), year and month
    year,                    \* fetch script: year
    month,                   \* fetch script: month
    week,                    \* fetch script: week (NoWeek: None)
    fetch_repo_name,         \* fetch script: repo_name
    start_date,              \* fetch script: start_date, as a day number
    end_date,                \* fetch script: end_date, as a day number
    week_ranges,             \* get_week_range: week -> what the call gave
    month_range,             \* get_month_range: what the call gave
    summary_image,           \* create_summary_chart: the chart written
    summary_excel,           \* create_summary_excel: the workbook written
    generate_df,             \* generate.py, compare_metrics: the frame returned
    category_df,             \* read_excel_data: category -> rows of its file
    data                     \* read_excel_data: the dictionary returned

\* the state of a call of clean_repo_name
name_vars == <<calls, frames, cleaned>>

\* the state of the issue-tracker fetch script
fetch_vars == <<token, g, issues, issue_idx, issues_data, devops_team_members,
                output>>

\* the command line of the fetch script and what main derives from it
args_vars == <<argv, current_date, year, month, week, fetch_repo_name,
               start_date, end_date>>

\* the results of direct calls of get_week_range and get_month_range
dates_vars == <<week_ranges, month_range>>

\* the two summary files of main
summary_vars == <<summary_image, summary_excel>>

\* the state of a call of read_excel_data
viz_vars == <<category_df, data>>

\* the state outside the metric comparison, clean_repo_name and the fetch
other_vars == <<args_vars, dates_vars, summary_vars, viz_vars, generate_df>>

vars == <<pc, first_month, second_month, first_filtered, second_filtered,
          first_metric_filtered, second_metric_filtered, metric_idx,
          metric_name, min_diff, passed_first, passed_second, result_df,
          all_results, exports, errors, exit_code, name_vars, fetch_vars, other_vars>>

----------------------------------------------------------------------------
(* Bounds of the model *)

MaxRows == 2

----------------------------------------------------------------------------
(* Cells *)

NaNStr == <<"NaN">>

NaN == <<>>

Num(v) == <<v>>

\* pd.isna on a numeric cell
isna(cell) == cell = NaN

\* pd.isna on a string cell
isnaStr(cell) == cell = NaNStr

Abs(x) == IF x < 0 THEN -x ELSE x

----------------------------------------------------------------------------
(* Strings *)

Digits == {"0", "1", "2", "3", "4", "5", "6", "7", "8", "9"}

LowerCase == <<"a", "b", "c", "d", "e", "f", "g", "h", "i", "j", "k", "l", "m",
               "n", "o", "p", "q", "r", "s", "t", "u", "v", "w", "x", "y", "z">>

UpperCase == <<"A", "B", "C", "D", "E", "F", "G", "H", "I", "J", "K", "L", "M",
               "N", "O", "P", "Q", "R", "S", "T", "U", "V", "W", "X", "Y", "Z">>

Letters == {LowerCase[i] : i \in 1..26} \cup {UpperCase[i] : i \in 1..26}

WordChars == Letters \cup Digits \cup {"_"}

SpaceChars == {" "}

ToLower(c) ==
    IF \E i \in 1..26 : UpperCase[i] = c
    THEN LowerCase[CHOOSE i \in 1..26 : UpperCase[i] = c]
    ELSE c

LowerStr(s) == [i \in 1..Len(s) |-> ToLower(s[i])]

StartsWithAt(s, sub, i) ==
    /\ i >= 1
    /\ i + Len(sub) - 1 <= Len(s)
    /\ SubSeq(s, i, i + Len(sub) - 1) = sub

Contains(s, sub) == \E i \in 1..(Len(s) + 1) : StartsWithAt(s, sub, i)

Find(s, sub) ==
    IF Contains(s, sub)
    THEN CHOOSE i \in 1..(Len(s) + 1) :
            /\ StartsWithAt(s, sub, i)
            /\ \A j \in 1..(i - 1) : ~StartsWithAt(s, sub, j)
    ELSE 0

\* a variant of Split: split at the first separator only, s.split(sep, 1)
SplitOnce(s, sep) ==
    IF Find(s, sep) = 0
    THEN <<s>>
    ELSE <<SubSeq(s, 1, Find(s, sep) - 1),
           SubSeq(s, Find(s, sep) + Len(sep), Len(s))>>

RECURSIVE Split(_, _)

\* s.split(sep), j being the first position of sep in s (0: none)
SplitAt(s, sep, j) ==
    IF j = 0
    THEN <<s>>
    ELSE <<SubSeq(s, 1, j - 1)>> \o Split(SubSeq(s, j + Len(sep), Len(s)), sep)

Split(s, sep) == SplitAt(s, sep, Find(s, sep))

Strip(s) ==
    IF \A i \in 1..Len(s) : s[i] \in SpaceChars
    THEN <<>>
    ELSE LET a == CHOOSE i \in 1..Len(s) :
                    s[i] \notin SpaceChars /\ \A j \in 1..(i - 1) : s[j] \in SpaceChars
             b == CHOOSE i \in 1..Len(s) :
                    s[i] \notin SpaceChars /\ \A j \in (i + 1)..Len(s) : s[j] \in SpaceChars
         IN  SubSeq(s, a, b)

StrAdd(a, b) == IF a = NaNStr \/ b = NaNStr THEN NaNStr ELSE a \o b

----------------------------------------------------------------------------
(* clean_repo_name: the two regular expressions, matched as re.search does  *)
(* (leftmost start, greedy quantifiers with backtracking, IGNORECASE).      *)

\* index just after the longest run of characters of class C starting at i
RunEnd(s, i, C) ==
    IF i > Len(s)
    THEN i
    ELSE CHOOSE j \in i..(Len(s) + 1) :
            /\ \A k \in i..(j - 1) : s[k] \in C
            /\ (j = Len(s) + 1 \/ s[j] \notin C)

\* the same for the negated class [^...]
RunEndNot(s, i, C) ==
    IF i > Len(s)
    THEN i
    ELSE CHOOSE j \in i..(Len(s) + 1) :
            /\ \A k \in i..(j - 1) : s[k] \notin C
            /\ (j = Len(s) + 1 \/ s[j] \in C)

\* l\d+-(\w+)- at i, the digits ending before d and the word before w:
\* <<index after the second dash, tech>>, or <<>> if it does not match
PrefixEnd(s, i, d, w) ==
    IF /\ i <= Len(s) /\ s[i] \in {"l", "L"}
       /\ d > i + 1 /\ d <= Len(s) /\ s[d] = "-"
       /\ w > d + 1 /\ w <= Len(s) /\ s[w] = "-"
    THEN <<w + 1, SubSeq(s, d + 1, w - 1)>>
    ELSE <<>>

PrefixTech(s, i, d) == PrefixEnd(s, i, d, RunEnd(s, d + 1, WordChars))

PrefixAt(s, i) == PrefixTech(s, i, RunEnd(s, i + 1, Digits))

\* a variant of Pattern1Project: the project group ends at the next dash
\* ([^_\s-]+)
Pattern1ProjectToDash(s, pre, p) ==
    IF RunEndNot(s, pre[1], {"_", "-"} \cup SpaceChars) > pre[1]
    THEN <<pre[2], SubSeq(s, pre[1],
                          RunEndNot(s, pre[1], {"_", "-"} \cup SpaceChars) - 1)>>
    ELSE <<>>

\* ([^_\s]+) after the prefix pre, the run of [^_\s] ending before p
Pattern1Project(s, pre, p) ==
    IF p > pre[1]
    THEN <<pre[2], SubSeq(s, pre[1], p - 1)>>
    ELSE <<>>

Pattern1From(s, pre) ==
    IF pre = <<>>
    THEN <<>>
    ELSE Pattern1Project(s, pre, RunEndNot(s, pre[1], {"_"} \cup SpaceChars))

\* r'l\d+-(\w+)-([^_\s]+)' matched at i: the groups, or <<>>
Pattern1At(s, i) == Pattern1From(s, PrefixAt(s, i))

\* ([^_\s]+)-(\w+) after the prefix pre: the greedy group gives back
\* characters down to the last dash in dashes
Pattern2Suffix(s, pre, dashes) ==
    IF dashes = {}
    THEN <<>>
    ELSE <<pre[2],
           SubSeq(s, pre[1], (CHOOSE x \in dashes : \A y \in dashes : y <= x) - 1),
           SubSeq(s, (CHOOSE x \in dashes : \A y \in dashes : y <= x) + 1,
                  RunEnd(s, (CHOOSE x \in dashes : \A y \in dashes : y <= x) + 1,
                         WordChars) - 1)>>

Pattern2Project(s, pre, p) ==
    Pattern2Suffix(s, pre, {k \in (pre[1] + 1)..(p - 1) :
                              /\ s[k] = "-"
                              /\ k + 1 <= Len(s)
                              /\ s[k + 1] \in WordChars})

Pattern2From(s, pre) ==
    IF pre = <<>>
    THEN <<>>
    ELSE Pattern2Project(s, pre, RunEndNot(s, pre[1], {"_"} \cup SpaceChars))

\* r'l\d+-(\w+)-([^_\s]+)-(\w+)' matched at i: the groups, or <<>>
Pattern2At(s, i) == Pattern2From(s, PrefixAt(s, i))

\* re.search: of the matches at every start, the leftmost one, or <<>>
Leftmost(matches) ==
    IF \E i \in DOMAIN matches : matches[i] # <<>>
    THEN matches[CHOOSE i \in DOMAIN matches :
            /\ matches[i] # <<>>
            /\ \A j \in DOMAIN matches : j < i => matches[j] = <<>>]
    ELSE <<>>

\* re.search(patterns[0], repo_name, re.IGNORECASE).groups(), or <<>>
Search1(s) == Leftmost([i \in 1..Len(s) |-> Pattern1At(s, i)])

\* re.search(patterns[1], repo_name, re.IGNORECASE).groups(), or <<>>
Search2(s) == Leftmost([i \in 1..Len(s) |-> Pattern2At(s, i)])

\* a variant of StartWithL: the test for the first letter ignores case, as
\* the regular expressions do
StartWithLAnyCase(parts) ==
    {n \in 1..Len(parts) : Len(parts[n]) > 0 /\ parts[n][1] \in {"l", "L"}}

\* the positions of the parts that start with 'l'
StartWithL(parts) ==
    {n \in 1..Len(parts) : Len(parts[n]) > 0 /\ parts[n][1] = "l"}

\* one activation of clean_repo_name, given the two searches and the split at
\* '_': the value it returns, or the part it calls itself for
CleanBody(repo_name, m1, m2, parts) ==
    IF m1 # <<>>
    THEN [recurse |-> FALSE, value |-> m1[1] \o <<"-">> \o m1[2]]
    ELSE IF m2 # <<>>
    THEN [recurse |-> FALSE,
          value |-> m2[1] \o <<"-">> \o m2[2] \o <<"-">> \o m2[3]]
    ELSE IF Len(parts) >= 2 /\ StartWithL(parts) # {}
    THEN [recurse |-> TRUE,
          value |-> parts[CHOOSE n \in StartWithL(parts) :
                             \A m \in StartWithL(parts) : n <= m]]
    ELSE [recurse |-> FALSE, value |-> repo_name]

RECURSIVE clean_repo_name(_)

\* the body of clean_repo_name, given the two searches and the split at '_'
CleanFrom(repo_name, m1, m2, parts) ==
    IF m1 # <<>>
    THEN m1[1] \o <<"-">> \o m1[2]
    ELSE IF m2 # <<>>
    THEN m2[1] \o <<"-">> \o m2[2] \o <<"-">> \o m2[3]
    ELSE IF Len(parts) >= 2 /\ StartWithL(parts) # {}
    THEN clean_repo_name(
            parts[CHOOSE n \in StartWithL(parts) : \A m \in StartWithL(parts) : n <= m])
    ELSE repo_name

clean_repo_name(repo_name) ==
    CleanFrom(repo_name, Search1(repo_name), Search2(repo_name),
              Split(repo_name, <<"_">>))

----------------------------------------------------------------------------
(* Frames *)

\* main: metrics
metrics == <<"Code Smell", "Duplications", "Security Hotspot">>

Metrics == {metrics[i] : i \in 1..Len(metrics)}

KeyCols == {"Repository Name", "Branch"}

BaseCols == KeyCols \cup Metrics

EmptyFrame == [cols |-> {}, rows |-> <<>>]

\* the rows of df at the positions in keep, in their order
RECURSIVE SelectRows(_, _, _)
SelectRows(rows, keep, i) ==
    IF i > Len(rows)
    THEN <<>>
    ELSE (IF i \in keep THEN <<rows[i]>> ELSE <<>>) \o SelectRows(rows, keep, i + 1)

\* df[mask]
Where(df, keep) == [cols |-> df.cols, rows |-> SelectRows(df.rows, keep, 1)]

\* df.dropna(subset=[...]) for string columns
dropnaStr(df, subset) ==
    Where(df, {i \in 1..Len(df.rows) : \A c \in subset : ~isnaStr(df.rows[i][c])})

\* df.dropna(subset=[metric])
dropna(df, metric) ==
    Where(df, {i \in 1..Len(df.rows) : ~isna(df.rows[i][metric])})

----------------------------------------------------------------------------
(* filter_branch_data *)

branch_filters == {<<"s", "t", "g">>,
                   <<"s", "t", "a", "g", "e">>,
                   <<"s", "t", "g", "-", "a", "k", "s">>,
                   <<"s", "t", "a", "g", "g", "i", "n", "g">>}

\* a variant of BranchMask: the match is case-sensitive (case=False left out)
BranchMaskCaseSensitive(branch) ==
    /\ ~isnaStr(branch)
    /\ \E f \in branch_filters : Contains(branch, f)

\* df['Branch'].str.contains('|'.join(branch_filters), case=False, na=False)
BranchMask(branch) ==
    /\ ~isnaStr(branch)
    /\ \E f \in branch_filters : Contains(LowerStr(branch), f)

\* a variant of filter_branch_data: the first row of the selection is taken
\* for a header row and left out
filter_branch_data_skip_header(df) ==
    LET d == dropnaStr(df, KeyCols)
        kept == Where(d, {i \in 1..Len(d.rows) : BranchMask(d.rows[i]["Branch"])})
    IN  [cols |-> kept.cols, rows |-> SubSeq(kept.rows, 2, Len(kept.rows))]

filter_branch_data(df) ==
    LET d == dropnaStr(df, KeyCols)
    IN  Where(d, {i \in 1..Len(d.rows) : BranchMask(d.rows[i]["Branch"])})

----------------------------------------------------------------------------
(* compare_metrics *)

Sep == <<"_", "_", "_">>

CodeSmellMinDiff == 20

\* row['Repository Name'] + '___' + row['Branch']
RepoAndBranch(row) ==
    StrAdd(StrAdd(row["Repository Name"], Sep), row["Branch"])

\* df['RepoAndBranch'] = df['Repository Name'] + '___' + df['Branch']
SetKeyColumn(df) ==
    [cols |-> df.cols \cup {"RepoAndBranch"},
     rows |-> [i \in 1..Len(df.rows) |->
                 [c \in df.cols \cup {"RepoAndBranch"} |->
                    IF c = "RepoAndBranch"
                    THEN RepoAndBranch(df.rows[i])
                    ELSE df.rows[i][c]]]]

\* a variant of WithKey: the rows without repository or branch are dropped
\* from the frame before the column is set
WithKeyDropna(df) == SetKeyColumn(dropnaStr(df, KeyCols))

\* what the assignment of the column leaves in the frame passed
WithKey(df) == SetKeyColumn(df)

\* set(df['RepoAndBranch'])
KeySet(df) == {df.rows[i]["RepoAndBranch"] : i \in 1..Len(df.rows)}

\* a variant of FirstValue: the value of the last row of the selection,
\* .values[-1]
LastValue(df, repo_branch, metric) ==
    IF \E i \in 1..Len(df.rows) : df.rows[i]["RepoAndBranch"] = repo_branch
    THEN df.rows[CHOOSE i \in 1..Len(df.rows) :
            /\ df.rows[i]["RepoAndBranch"] = repo_branch
            /\ \A j \in (i + 1)..Len(df.rows) :
                  df.rows[j]["RepoAndBranch"] # repo_branch][metric]
    ELSE NaN

\* df[df['RepoAndBranch'] == repo_branch][metric_name].values[0];
\* NaN stands for an empty selection as well: both make the loop continue
FirstValue(df, repo_branch, metric) ==
    IF \E i \in 1..Len(df.rows) : df.rows[i]["RepoAndBranch"] = repo_branch
    THEN df.rows[CHOOSE i \in 1..Len(df.rows) :
            /\ df.rows[i]["RepoAndBranch"] = repo_branch
            /\ \A j \in 1..(i - 1) : df.rows[j]["RepoAndBranch"] # repo_branch][metric]
    ELSE NaN

\* a variant of Subtract: period A minus period B
SubtractReversed(second_value, first_value) ==
    IF isna(second_value) \/ isna(first_value)
    THEN NaN
    ELSE Num(first_value[1] - second_value[1])

\* second_value - first_value, in floating point: NaN if either is NaN
Subtract(second_value, first_value) ==
    IF isna(second_value) \/ isna(first_value)
    THEN NaN
    ELSE Num(second_value[1] - first_value[1])

\* a variant of Insignificant: a Code Smell change of exactly the threshold
\* is dropped too
InsignificantOffByOne(metric, difference, md) ==
    \/ metric = "Code Smell" /\ ~isna(difference)
                             /\ Abs(difference[1]) <= CodeSmellMinDiff
    \/ metric # "Code Smell" /\ ~isna(difference) /\ difference[1] = 0

\* a variant of Insignificant: the Code Smell threshold applied to every metric
InsignificantThresholdForAll(metric, difference, md) ==
    ~isna(difference) /\ Abs(difference[1]) < CodeSmellMinDiff

\* a variant of Insignificant: the test for an unchanged value is left out
InsignificantCodeSmellOnly(metric, difference, md) ==
    metric = "Code Smell" /\ ~isna(difference)
                          /\ Abs(difference[1]) < CodeSmellMinDiff

\* the two significance tests of the loop body; a comparison with NaN is False
Insignificant(metric, difference, md) ==
    \/ metric = "Code Smell" /\ ~isna(difference)
                             /\ Abs(difference[1]) < CodeSmellMinDiff
    \/ metric # "Code Smell" /\ ~isna(difference) /\ difference[1] = 0

\* a variant of VisitValues: the two pd.isna tests are left out
VisitValuesNoNaNCheck(repo, branch, first_value, second_value, metric, md) ==
    IF repo = <<>>
    THEN [do |-> "skip"]
    ELSE IF Insignificant(metric, Subtract(second_value, first_value), md)
    THEN [do |-> "skip"]
    ELSE [do |-> "append",
          row |-> [repo |-> repo,
                   branch |-> branch,
                   clean |-> clean_repo_name(repo),
                   first |-> first_value,
                   second |-> second_value,
                   difference |-> Subtract(second_value, first_value),
                   metric |-> metric]]

\* the loop body from the lookup of the two values on
VisitValues(repo, branch, first_value, second_value, metric, md) ==
    IF repo = <<>>
    THEN [do |-> "skip"]
    ELSE IF isna(first_value)
    THEN [do |-> "skip"]
    ELSE IF isna(second_value)
    THEN [do |-> "skip"]
    ELSE IF Insignificant(metric, Subtract(second_value, first_value), md)
    THEN [do |-> "skip"]
    ELSE [do |-> "append",
          row |-> [repo |-> repo,
                   branch |-> branch,
                   clean |-> clean_repo_name(repo),
                   first |-> first_value,
                   second |-> second_value,
                   difference |-> Subtract(second_value, first_value),
                   metric |-> metric]]

\* a variant of VisitParts: the two parts unpacked in the wrong order
VisitPartsSwapped(first, second, repo_branch, parts, metric, md) ==
    IF Len(parts) # 2
    THEN [do |-> "raise"]
    ELSE VisitValues(parts[2], parts[1],
                     FirstValue(first, repo_branch, metric),
                     FirstValue(second, repo_branch, metric), metric, md)

\* the loop body from the unpacking of repo_branch.split('___') on
VisitParts(first, second, repo_branch, parts, metric, md) ==
    IF Len(parts) # 2
    THEN [do |-> "raise"]
    ELSE VisitValues(parts[1], parts[2],
                     FirstValue(first, repo_branch, metric),
                     FirstValue(second, repo_branch, metric), metric, md)

\* one pass of the loop body for repo_branch:
\* "skip" (continue), "raise" (ValueError of the unpacking) or "append"
Visit(first, second, repo_branch, metric, md) ==
    IF isnaStr(repo_branch) \/ repo_branch = <<>>
    THEN [do |-> "skip"]
    ELSE VisitParts(first, second, repo_branch, Split(repo_branch, Sep), metric, md)

\* the rows appended while the loop visits the keys of order from position i
RECURSIVE Appended(_, _, _)
Appended(visit, order, i) ==
    IF i > Len(order)
    THEN <<>>
    ELSE (IF visit[order[i]].do = "append" THEN <<visit[order[i]].row>> ELSE <<>>)
         \o Appended(visit, order, i + 1)

\* the orders in which a Python set can be iterated: each element once
Orders(S) ==
    {o \in [1..Cardinality(S) -> S] : \A i, j \in 1..Cardinality(S) :
                                         i # j => o[i] # o[j]}

\* for repo_branch in first_repo_branches.intersection(second_repo_branches)
LoopOrders(first, second) == Orders(KeySet(first) \cap KeySet(second))

\* the loop over the keys in each of the orders: whether it raised, and
\* the rows of results
Loop(visit, orders) ==
    {IF \E i \in 1..Len(o) : visit[o[i]].do = "raise"
     THEN [raised |-> TRUE, results |-> <<>>]
     ELSE [raised |-> FALSE, results |-> Appended(visit, o, 1)] : o \in orders}

\* compare_metrics after the two RepoAndBranch columns are set
CompareKeyed(first, second, metric, md) ==
    [first |-> first,
     second |-> second,
     outcomes |-> Loop([k \in KeySet(first) \cap KeySet(second) |->
                          Visit(first, second, k, metric, md)],
                       LoopOrders(first, second))]

\* the call compare_metrics(first_month, second_month, metric_name, min_diff):
\* the two frames as the call leaves them and, for every order in which the
\* set of common keys can be iterated, whether the call raised and the rows of
\* the returned frame
compare_metrics(first_in, second_in, metric, md) ==
    CompareKeyed(WithKey(first_in), WithKey(second_in), metric, md)

----------------------------------------------------------------------------
(* compare_metrics of src/generate.py: the frames are march_df and april_df, *)
(* the rows have the columns <metric>_March and <metric>_April and no        *)
(* 'Metric' column                                                           *)

\* a variant of generate_VisitValues: the Code Smell threshold applied to
\* every metric
generate_VisitValuesAllThreshold(repo, branch, march_value, april_value, metric, md) ==
    IF repo = <<>> \/ isna(march_value) \/ isna(april_value)
    THEN [do |-> "skip"]
    ELSE IF Abs(april_value[1] - march_value[1]) < CodeSmellMinDiff
    THEN [do |-> "skip"]
    ELSE [do |-> "append",
          row |-> [repo |-> repo,
                   branch |-> branch,
                   clean |-> clean_repo_name(repo),
                   march |-> march_value,
                   april |-> april_value,
                   difference |-> Num(april_value[1] - march_value[1])]]

\* the loop body from the lookup of the two values on (generate.py:74-113)
generate_VisitValues(repo, branch, march_value, april_value, metric, md) ==
    IF repo = <<>>
    THEN [do |-> "skip"]
    ELSE IF isna(march_value)
    THEN [do |-> "skip"]
    ELSE IF isna(april_value)
    THEN [do |-> "skip"]
    ELSE IF metric = "Code Smell" /\ Abs(april_value[1] - march_value[1]) < 20
    THEN [do |-> "skip"]
    ELSE IF metric # "Code Smell" /\ april_value[1] - march_value[1] = 0
    THEN [do |-> "skip"]
    ELSE [do |-> "append",
          row |-> [repo |-> repo,
                   branch |-> branch,
                   clean |-> clean_repo_name(repo),
                   march |-> march_value,
                   april |-> april_value,
                   difference |-> Num(april_value[1] - march_value[1])]]

\* the loop body from the unpacking of repo_branch.split('___') on
generate_VisitParts(march, april, repo_branch, parts, metric, md) ==
    IF Len(parts) # 2
    THEN [do |-> "raise"]
    ELSE generate_VisitValues(parts[1], parts[2],
                              FirstValue(march, repo_branch, metric),
                              FirstValue(april, repo_branch, metric), metric, md)

\* one pass of the loop body for repo_branch
generate_Visit(march, april, repo_branch, metric, md) ==
    IF isnaStr(repo_branch) \/ repo_branch = <<>>
    THEN [do |-> "skip"]
    ELSE generate_VisitParts(march, april, repo_branch, Split(repo_branch, Sep),
                             metric, md)

\* compare_metrics after the two RepoAndBranch columns are set
generate_CompareKeyed(march, april, metric, md) ==
    Loop([k \in KeySet(march) \cap KeySet(april) |->
            generate_Visit(march, april, k, metric, md)],
         LoopOrders(march, april))

\* the call compare_metrics(march_df, april_df, metric_name, min_diff) of
\* generate.py: for every order in which the set of common keys can be
\* iterated, whether the call raised and the rows of the returned frame
generate_compare_metrics(march_df, april_df, metric, md) ==
    generate_CompareKeyed(SetKeyColumn(march_df), SetKeyColumn(april_df), metric, md)

----------------------------------------------------------------------------
(* create_excel_with_color: the workbook, without its chart *)

NotWritten == [written |-> FALSE, placeholder |-> FALSE, rows |-> <<>>]

Green == "00FF00"

Red == "FF0000"

\* a variant of create_excel_with_color: the two fills exchanged
create_excel_fills_exchanged(df) ==
    IF df = <<>>
    THEN [written |-> TRUE, placeholder |-> TRUE, rows |-> <<>>]
    ELSE [written |-> TRUE,
          placeholder |-> FALSE,
          rows |-> [i \in 1..Len(df) |->
                      [row |-> df[i],
                       fill |-> IF ~isna(df[i].difference) /\ df[i].difference[1] < 0
                               THEN Red
                               ELSE Green]]]

create_excel_with_color(df) ==
    IF df = <<>>
    THEN [written |-> TRUE, placeholder |-> TRUE, rows |-> <<>>]
    ELSE [written |-> TRUE,
          placeholder |-> FALSE,
          rows |-> [i \in 1..Len(df) |->
                      [row |-> df[i],
                       fill |-> IF ~isna(df[i].difference) /\ df[i].difference[1] < 0
                               THEN Green
                               ELSE Red]]]

----------------------------------------------------------------------------
(* create_summary_chart and create_summary_excel: per metric, the rows the   *)
(* file lists; df is the sequence of the rows of a result frame              *)

\* a file of the summary that has not been written
NoSummary == [written |-> FALSE, sections |-> [m \in Metrics |-> <<>>]]

TopChart == 3

TopExcel == 5

\* df[df[f'{metric}_Difference'] < 0]: the positions of the rows kept
Improvements(df) ==
    {i \in 1..Len(df) : ~isna(df[i].difference) /\ df[i].difference[1] < 0}

\* a variant of SortedOrders: the rows stay in the order of the frame
FrameOrder(df, S) ==
    {[n \in 1..Cardinality(S) |->
        CHOOSE i \in S : Cardinality({j \in S : j < i}) = n - 1]}

\* improvements.sort_values(by=f'{metric}_Difference'): the orders the rows
\* at the positions S can come out in, ascending by difference; the default
\* sort (quicksort) is not stable, rows of equal difference come in any order
RECURSIVE SortedOrders(_, _)
SortedOrders(df, S) ==
    IF S = {}
    THEN {<<>>}
    ELSE UNION {{<<i>> \o o : o \in SortedOrders(df, S \ {i})} :
                  i \in {j \in S : \A k \in S :
                                     df[j].difference[1] <= df[k].difference[1]}}

\* .head(n) of the rows of df taken in the order o
HeadRows(df, o, n) == [i \in 1..(IF Len(o) < n THEN Len(o) ELSE n) |-> df[o[i]]]

\* create_summary_chart(all_results, top_n): None if no metric has an
\* improvement, else a section of top_n bars for each metric that has one;
\* sorted[m] is the order sort_values leaves the improvements of m in
create_summary_chart(results, sorted, top_n) ==
    IF \A m \in Metrics : Improvements(results[m]) = {}
    THEN NoSummary
    ELSE [written |-> TRUE,
          sections |-> [m \in Metrics |-> HeadRows(results[m], sorted[m], top_n)]]

\* create_summary_excel(all_results): a block of up to 5 rows for each metric
\* of all_results that has an improvement, a line of text for the others
create_summary_excel(results, sorted) ==
    [written |-> TRUE,
     sections |-> [m \in Metrics |-> HeadRows(results[m], sorted[m], TopExcel)]]

----------------------------------------------------------------------------
(* The inputs: what the two period files can hold *)

Repo_a == <<"a">>

Repo_a_ == <<"a", "_">>

Repo_a___ == <<"a", "_", "_", "_">>

Repo_l3_angular_delta ==
    <<"l", "3", "-", "a", "n", "g", "u", "l", "a", "r", "-", "d", "e", "l", "t", "a">>

Branch_stg == <<"s", "t", "g">>

Branch__stg == <<"_", "s", "t", "g">>

Branch_dev == <<"d", "e", "v">>

Branch_STG == <<"S", "T", "G">>

Branch_x_Stage == <<"x", "-", "S", "t", "a", "g", "e">>

Branch_staging == <<"s", "t", "a", "g", "i", "n", "g">>

Branch_Stagging == <<"S", "t", "a", "g", "g", "i", "n", "g">>

Uniform(cell) == [m \in Metrics |-> cell]

\* Code Smell missing, the other two metrics present
OnlyCodeSmellMissing ==
    [m \in Metrics |-> IF m = "Code Smell" THEN NaN
                       ELSE IF m = "Duplications" THEN Num(7) ELSE Num(9)]

Row(repo, branch, vec) ==
    [c \in BaseCols |->
        IF c = "Repository Name" THEN repo
        ELSE IF c = "Branch" THEN branch
        ELSE vec[c]]

Rows(repos, branches, vecs) ==
    {Row(r, b, v) : r \in repos, b \in branches, v \in vecs}

\* the frames of at most MaxRows rows over a set of rows
Frames(rows) ==
    {[cols |-> BaseCols, rows |-> q] :
        q \in UNION {[1..n -> rows] : n \in 0..MaxRows}}

\* families of inputs: the rows period A and period B are drawn from
IdentityKeys ==
    [first  |-> Rows({Repo_a, Repo_a_}, {Branch_stg, Branch__stg}, {Uniform(Num(100))}),
     second |-> Rows({Repo_a, Repo_a_}, {Branch_stg, Branch__stg}, {Uniform(Num(120))})]

SeparatorInName ==
    [first  |-> Rows({Repo_a, Repo_a___}, {Branch_stg}, {Uniform(Num(100))}),
     second |-> Rows({Repo_a, Repo_a___}, {Branch_stg}, {Uniform(Num(120))})]

MissingRepository ==
    [first  |-> Rows({NaNStr, <<>>, Repo_a}, {Branch_stg}, {Uniform(Num(100))}),
     second |-> Rows({NaNStr, <<>>, Repo_a}, {Branch_stg}, {Uniform(Num(120))})]

MissingBranch ==
    [first  |-> Rows({Repo_a}, {NaNStr, <<>>, Branch_stg}, {Uniform(Num(100))}),
     second |-> Rows({Repo_a}, {NaNStr, <<>>, Branch_stg}, {Uniform(Num(120))})]

MissingBoth ==
    [first  |-> Rows({NaNStr, <<>>}, {NaNStr, <<>>}, {Uniform(Num(100))}),
     second |-> Rows({NaNStr, <<>>}, {NaNStr, <<>>}, {Uniform(Num(120))})]

ThresholdEdge ==
    LET vecs == {Uniform(NaN), Uniform(Num(100)), Uniform(Num(119)), Uniform(Num(120))}
    IN  [first  |-> Rows({Repo_a}, {Branch_stg}, vecs),
         second |-> Rows({Repo_a}, {Branch_stg}, vecs)]

EndToEnd ==
    LET vecs == {Uniform(Num(300)), Uniform(Num(270)), OnlyCodeSmellMissing}
    IN  [first  |-> Rows({Repo_l3_angular_delta}, {Branch_stg}, vecs),
         second |-> Rows({Repo_l3_angular_delta}, {Branch_stg}, vecs)]

Scenarios == <<IdentityKeys, SeparatorInName, MissingRepository, MissingBranch,
               MissingBoth, ThresholdEdge, EndToEnd>>

\* values of the min_diff argument: its default, and the threshold of the
\* earlier variant of the script
MinDiffs == {0, 50}

----------------------------------------------------------------------------
(* The run *)

\* exit_code while the process runs
NotExited == <<>>

\* the process has ended with this exit code
Exit(code) == <<code>>

\* cleaned while no call of clean_repo_name has returned
NotReturned == <<"None">>

\* no call of clean_repo_name is under way
NamesIdle ==
    /\ calls = <<>>
    /\ frames = 0
    /\ cleaned = NotReturned

\* the JSON file of the fetch script: not written
NotSaved ==
    [saved |-> FALSE, truncated |-> FALSE, issues |-> <<>>,
     devops_team_members |-> <<>>]

\* the JSON file opened for writing and not written to its end
Truncated ==
    [saved |-> FALSE, truncated |-> TRUE, issues |-> <<>>,
     devops_team_members |-> <<>>]

\* the fetch script is not running

FetchIdle ==
    /\ token = FALSE
    /\ g = "None"
    /\ issues = <<>>
    /\ issue_idx = 0
    /\ issues_data = <<>>
    /\ devops_team_members = <<>>
    /\ output = NotSaved

\* week while no week is requested (None)
NoWeek == <<>>

\* no command line has been parsed, no date range computed
ArgsIdle ==
    /\ argv = <<>>
    /\ current_date = [year |-> 0, month |-> 0]
    /\ year = 0
    /\ month = 0
    /\ week = NoWeek
    /\ fetch_repo_name = <<>>
    /\ start_date = 0
    /\ end_date = 0

DatesIdle ==
    /\ week_ranges = <<>>
    /\ month_range = <<>>

SummaryIdle ==
    /\ summary_image = NoSummary
    /\ summary_excel = NoSummary

VizIdle ==
    /\ category_df = <<>>
    /\ data = <<>>

\* nothing but the metric comparison has run
OthersIdle ==
    /\ ArgsIdle
    /\ DatesIdle
    /\ SummaryIdle
    /\ VizIdle
    /\ generate_df = <<>>

\* main has loaded nothing and processed nothing
EngineIdle ==
    /\ first_filtered = EmptyFrame
    /\ second_filtered = EmptyFrame
    /\ first_metric_filtered = EmptyFrame
    /\ second_metric_filtered = EmptyFrame
    /\ metric_idx = 0
    /\ metric_name = ""
    /\ min_diff = 0
    /\ passed_first = EmptyFrame
    /\ passed_second = EmptyFrame
    /\ result_df = <<>>
    /\ all_results = [m \in Metrics |-> <<>>]
    /\ exports = [m \in Metrics |-> NotWritten]
    /\ errors = <<>>
    /\ exit_code = NotExited

Init ==
    /\ pc = "start"
    /\ \E n \in 1..Len(Scenarios) :
          /\ first_month \in Frames(Scenarios[n].first)
          /\ second_month \in Frames(Scenarios[n].second)
    /\ EngineIdle
    /\ NamesIdle
    /\ FetchIdle
    /\ OthersIdle

\* main, lines 448-453: drop the rows without repository or branch, and the
\* rows whose repository is blank
DropBlank(df) ==
    LET d == dropnaStr(df, KeyCols)
    IN  Where(d, {i \in 1..Len(d.rows) : Strip(d.rows[i]["Repository Name"]) # <<>>})

\* the column col of a frame as pd.read_excel returns it has dtype object: it
\* has unless the file holds rows and the column is empty in every one of
\* them, which makes it a float64 column of NaN; dropna and boolean selection
\* keep the dtype
ObjectColumn(df, col) ==
    \/ df.rows = <<>>
    \/ \E i \in 1..Len(df.rows) : ~isnaStr(df.rows[i][col])

\* main, up to the for loop; the .str accessor (lines 452, 453 and 47) raises
\* AttributeError on a column that is not of dtype object, and the except
\* clause takes over
MainLoad ==
    /\ pc = "start"
    /\ IF ~ObjectColumn(first_month, "Repository Name")
       THEN /\ first_month' = dropnaStr(first_month, KeyCols)
            /\ second_month' = dropnaStr(second_month, KeyCols)
            /\ UNCHANGED <<first_filtered, second_filtered, metric_idx>>
            /\ errors' = Append(errors, "str")
            /\ pc' = "caught"
       ELSE IF ~ObjectColumn(second_month, "Repository Name")
       THEN /\ first_month' = DropBlank(first_month)
            /\ second_month' = dropnaStr(second_month, KeyCols)
            /\ UNCHANGED <<first_filtered, second_filtered, metric_idx>>
            /\ errors' = Append(errors, "str")
            /\ pc' = "caught"
       ELSE IF ~ObjectColumn(first_month, "Branch")
       THEN /\ first_month' = DropBlank(first_month)
            /\ second_month' = DropBlank(second_month)
            /\ UNCHANGED <<first_filtered, second_filtered, metric_idx>>
            /\ errors' = Append(errors, "str")
            /\ pc' = "caught"
       ELSE IF ~ObjectColumn(second_month, "Branch")
       THEN /\ first_month' = DropBlank(first_month)
            /\ second_month' = DropBlank(second_month)
            /\ first_filtered' = filter_branch_data(DropBlank(first_month))
            /\ UNCHANGED <<second_filtered, metric_idx>>
            /\ errors' = Append(errors, "str")
            /\ pc' = "caught"
       ELSE /\ first_month' = DropBlank(first_month)
            /\ second_month' = DropBlank(second_month)
            /\ first_filtered' = filter_branch_data(DropBlank(first_month))
            /\ second_filtered' = filter_branch_data(DropBlank(second_month))
            /\ metric_idx' = 1
            /\ pc' = "loop"
            /\ UNCHANGED errors
    /\ UNCHANGED <<first_metric_filtered, second_metric_filtered, metric_name,
                   min_diff, passed_first, passed_second, result_df,
                   all_results, exports, exit_code, name_vars, fetch_vars, other_vars>>

\* main: pd.read_excel raises (a report file is missing or unreadable); the
\* except clause takes over
MainLoadFails ==
    /\ pc = "start"
    /\ errors' = Append(errors, "read_excel")
    /\ pc' = "caught"
    /\ UNCHANGED <<first_month, second_month, first_filtered, second_filtered,
                   first_metric_filtered, second_metric_filtered, metric_idx,
                   metric_name, min_diff, passed_first, passed_second, result_df,
                   all_results, exports, exit_code, name_vars, fetch_vars, other_vars>>

\* a variant of dropna_caller: dropna hands back the frame it was called on,
\* so that the column set by the callee and the rows dropped show in it
dropna_same_object(df, returned) == returned

\* the frame df after df.dropna(subset=[metric]) was passed to
\* compare_metrics and came back as returned: dropna gives a new frame, the
\* one it was called on keeps its rows and its columns
dropna_caller(df, returned) == df

\* main, one pass of the for loop over metrics; an exception of
\* compare_metrics (the unpacking of the split key) or of the export (wb.save
\* cannot write the file) goes to the except clause, which ends main
MainMetric ==
    /\ pc = "loop"
    /\ \E metric \in {metrics[metric_idx]} :
       \E c \in {compare_metrics(dropna(first_filtered, metric),
                                  dropna(second_filtered, metric), metric, 0)} :
           /\ passed_first' = dropna(first_filtered, metric)
           /\ passed_second' = dropna(second_filtered, metric)
           /\ first_metric_filtered' = c.first
           /\ second_metric_filtered' = c.second
           /\ first_filtered' = dropna_caller(first_filtered, c.first)
           /\ second_filtered' = dropna_caller(second_filtered, c.second)
           /\ metric_name' = metric
           /\ min_diff' = 0
           /\ \E out \in c.outcomes, saved \in BOOLEAN :
                IF out.raised
                THEN /\ saved
                     /\ pc' = "caught"
                     /\ errors' = Append(errors, "split")
                     /\ UNCHANGED <<result_df, all_results, exports, metric_idx>>
                ELSE /\ result_df' = out.results
                     /\ all_results' = IF out.results # <<>>
                                       THEN [all_results EXCEPT ![metric] = out.results]
                                       ELSE all_results
                     /\ IF saved
                        THEN /\ exports' = [exports EXCEPT
                                      ![metric] = create_excel_with_color(out.results)]
                             /\ metric_idx' = metric_idx + 1
                             /\ pc' = IF metric_idx = Len(metrics)
                                      THEN "summary" ELSE "loop"
                             /\ UNCHANGED errors
                        ELSE /\ errors' = Append(errors, "save")
                             /\ pc' = "caught"
                             /\ UNCHANGED <<exports, metric_idx>>
    /\ UNCHANGED <<first_month, second_month, exit_code, name_vars, fetch_vars,
                   other_vars>>

\* main, after the loop (lines 484-494): if all_results holds a result, the
\* summary chart and then the summary workbook; plt.savefig or wb.save can
\* raise, and the except clause takes over. The two functions sort the same
\* rows with the same call, so rows of equal difference come in the same
\* order in both
MainSummary ==
    /\ pc = "summary"
    /\ IF \A m \in Metrics : all_results[m] = <<>>
       THEN /\ pc' = "done"
            /\ UNCHANGED <<summary_image, summary_excel, errors>>
       ELSE \E o1 \in SortedOrders(all_results[metrics[1]],
                                    Improvements(all_results[metrics[1]])),
               o2 \in SortedOrders(all_results[metrics[2]],
                                    Improvements(all_results[metrics[2]])),
               o3 \in SortedOrders(all_results[metrics[3]],
                                    Improvements(all_results[metrics[3]])),
               saved \in {"both", "image", "none"} :
            \E sorted \in {[m \in Metrics |-> IF m = metrics[1] THEN o1
                                                ELSE IF m = metrics[2] THEN o2
                                                ELSE o3]} :
                /\ (o1 = <<>> /\ o2 = <<>> /\ o3 = <<>>) => saved # "none"
                /\ summary_image' = IF saved = "none"
                                     THEN summary_image
                                     ELSE create_summary_chart(all_results, sorted,
                                                               TopChart)
                /\ summary_excel' = IF saved = "both"
                                     THEN create_summary_excel(all_results, sorted)
                                     ELSE summary_excel
                /\ errors' = IF saved = "both" THEN errors
                              ELSE IF saved = "image" THEN Append(errors, "save")
                              ELSE Append(errors, "savefig")
                /\ pc' = IF saved = "both" THEN "done" ELSE "caught"
    /\ UNCHANGED <<first_month, second_month, first_filtered, second_filtered,
                   first_metric_filtered, second_metric_filtered, metric_idx,
                   metric_name, min_diff, passed_first, passed_second, result_df,
                   all_results, exports, exit_code, name_vars, fetch_vars,
                   args_vars, dates_vars, viz_vars, generate_df>>

\* the end of the process: main returns, after its last statement or after the
\* print of its except clause, and the interpreter exits with code 0
MainExit ==
    /\ pc \in {"done", "caught"}
    /\ exit_code' = Exit(0)
    /\ pc' = "exited"
    /\ UNCHANGED <<first_month, second_month, first_filtered, second_filtered,
                   first_metric_filtered, second_metric_filtered, metric_idx,
                   metric_name, min_diff, passed_first, passed_second, result_df,
                   all_results, exports, errors, name_vars, fetch_vars, other_vars>>

\* a call compare_metrics(first_month, second_month, metric, md) on the loaded
\* frames as they are
CallCompareMetrics ==
    /\ pc = "start"
    /\ \E metric \in Metrics, md \in MinDiffs :
         \E c \in {compare_metrics(first_month, second_month, metric, md)} :
             /\ passed_first' = first_month
             /\ passed_second' = second_month
             /\ first_month' = c.first
             /\ second_month' = c.second
             /\ metric_name' = metric
             /\ min_diff' = md
             /\ \E out \in c.outcomes :
                  /\ result_df' = out.results
                  /\ pc' = IF out.raised THEN "raised" ELSE "returned"
    /\ UNCHANGED <<first_filtered, second_filtered, first_metric_filtered,
                   second_metric_filtered, metric_idx, all_results, exports,
                   errors, exit_code, name_vars, fetch_vars, other_vars>>

----------------------------------------------------------------------------
(* filter_branch_data on its own: first_month is the record set passed,     *)
(* first_filtered what the call returns for it, second_filtered what a       *)
(* second call returns for first_filtered.                                   *)

\* the rows a record set is drawn from: repository present or missing, branch
\* of each kind
BranchRows ==
    Rows({Repo_a, NaNStr},
         {Branch_dev, Branch_STG, Branch_x_Stage, Branch_staging, Branch_Stagging,
          NaNStr, <<>>},
         {Uniform(Num(100))})

InitFilter ==
    /\ pc = "filter"
    /\ first_month \in Frames(BranchRows)
    /\ second_month = EmptyFrame
    /\ EngineIdle
    /\ NamesIdle
    /\ FetchIdle
    /\ OthersIdle

\* first_filtered = filter_branch_data(first_month)
CallFilterBranchData ==
    /\ pc = "filter"
    /\ first_filtered' = filter_branch_data(first_month)
    /\ pc' = "filtered"
    /\ UNCHANGED <<first_month, second_month, second_filtered,
                   first_metric_filtered, second_metric_filtered, metric_idx,
                   metric_name, min_diff, passed_first, passed_second, result_df,
                   all_results, exports, errors, exit_code, name_vars, fetch_vars, other_vars>>

\* second_filtered = filter_branch_data(first_filtered)
CallFilterBranchDataAgain ==
    /\ pc = "filtered"
    /\ second_filtered' = filter_branch_data(first_filtered)
    /\ pc' = "refiltered"
    /\ UNCHANGED <<first_month, second_month, first_filtered,
                   first_metric_filtered, second_metric_filtered, metric_idx,
                   metric_name, min_diff, passed_first, passed_second, result_df,
                   all_results, exports, errors, exit_code, name_vars, fetch_vars, other_vars>>

NextFilter ==
    \/ CallFilterBranchData
    \/ CallFilterBranchDataAgain

SpecFilter == InitFilter /\ [][NextFilter]_vars

----------------------------------------------------------------------------
(* clean_repo_name on its own, one activation of the function per step:      *)
(* calls holds the argument of every call made, the first being the name     *)
(* passed by the caller; frames counts the calls that have not returned.     *)

\* the parts of the names of the form l<digits>-<technology>-<project> and
\* l<digits>-<technology>-<project>-<suffix>
FormDigits == {<<"3">>, <<"1", "2">>}

FormTechs == {<<"a", "n", "g", "u", "l", "a", "r">>,
              <<"n", "e", "t">>}

FormProjects == {<<"d", "e", "l", "t", "a">>,
                 <<"i", "p", "e", "x">>}

FormSuffixes == {<<"b", "u", "s", "i", "n", "e", "s", "s">>,
                 <<"e", "r", "p">>}

FormName(d, t, p) == <<"l">> \o d \o <<"-">> \o t \o <<"-">> \o p

FormNames ==
    {FormName(d, t, p) : d \in FormDigits, t \in FormTechs, p \in FormProjects}
    \cup {FormName(d, t, p) \o <<"-">> \o x :
            d \in FormDigits, t \in FormTechs, p \in FormProjects, x \in FormSuffixes}

\* names of other shapes: without the pattern, with underscores, with the
\* pattern inside an underscore-delimited name
OtherNames ==
    {<<>>,
     <<"f", "o", "o">>,
     <<"l", "i", "b">>,
     <<"l", "3">>,
     <<"l", "3", "-", "a">>,
     <<"a", "_">>,
     <<"_">>,
     <<"f", "o", "o", "_", "b", "a", "r">>,
     <<"f", "o", "o", "_", "l", "i", "b", "_", "x">>,
     <<"x", "_", "l", "a", "_", "l", "b">>,
     <<"L", "a", "_", "l", "b">>,
     <<"x", "_", "L", "3">>,
     <<"l", "_", "x">>,
     <<"l", "3", "-", "n", "e", "t", "_", "x">>,
     <<"L", "3", "-", "a", "n", "g", "u", "l", "a", "r", "-", "d", "e", "l", "t", "a">>,
     <<"S", "_", "l", "3", "-", "a", "-", "b", "_", "I", "D">>,
     <<"S", "_", "l", "3", "-", "a", "-", "b", "-", "c", "_", "I", "D">>,
     <<"l", "3", "-", "a", "-", "b", " ", "c">>,
     <<"x", "l", "3", "-", "a", "-", "b">>,
     <<"l", "3", "-", "-", "a", "-", "b">>,
     <<"l", "-", "a", "-", "b">>,
     <<"a", "_", "l", "3", "-", "b", "_", "l", "4", "-", "c", "-", "d">>}

Names == FormNames \cup OtherNames

InitNames ==
    /\ pc = "clean"
    /\ calls \in {<<name>> : name \in Names}
    /\ frames = 1
    /\ cleaned = NotReturned
    /\ first_month = EmptyFrame
    /\ second_month = EmptyFrame
    /\ EngineIdle
    /\ FetchIdle
    /\ OthersIdle

\* one activation of clean_repo_name on the argument of the last call: it
\* returns a value, or calls itself for a part of the argument
CleanRun ==
    /\ pc = "clean"
    /\ \E repo_name \in {calls[Len(calls)]} :
       \E body \in {CleanBody(repo_name, Search1(repo_name), Search2(repo_name),
                               Split(repo_name, <<"_">>))} :
           IF body.recurse
           THEN /\ calls' = Append(calls, body.value)
                /\ frames' = frames + 1
                /\ pc' = "clean"
                /\ UNCHANGED cleaned
           ELSE /\ cleaned' = body.value
                /\ pc' = "return"
                /\ UNCHANGED <<calls, frames>>
    /\ UNCHANGED <<first_month, second_month, first_filtered, second_filtered,
                   first_metric_filtered, second_metric_filtered, metric_idx,
                   metric_name, min_diff, passed_first, passed_second, result_df,
                   all_results, exports, errors, exit_code, fetch_vars, other_vars>>

\* the return of one call: the value goes to the caller, which returns it in
\* its turn (return clean_repo_name(part))
CleanReturn ==
    /\ pc = "return"
    /\ frames' = frames - 1
    /\ pc' = IF frames = 1 THEN "cleaned" ELSE "return"
    /\ UNCHANGED <<calls, cleaned>>
    /\ UNCHANGED <<first_month, second_month, first_filtered, second_filtered,
                   first_metric_filtered, second_metric_filtered, metric_idx,
                   metric_name, min_diff, passed_first, passed_second, result_df,
                   all_results, exports, errors, exit_code, fetch_vars, other_vars>>

NextNames ==
    \/ CleanRun
    \/ CleanReturn

SpecNames == InitNames /\ [][NextNames]_vars

\* the interpreter runs a call to its end
SpecNamesFair == SpecNames /\ WF_vars(NextNames)

----------------------------------------------------------------------------
(* The issue-tracker fetch script (src/fetch_github_data.py), main: the       *)
(* calls that can fail are os.makedirs, the GitHub API calls and the writing  *)
(* of the JSON file; errors names the calls that have raised.                 *)

MaxIssues == 2

\* an issue as the API returns it: created at or after the end of the period
\* or before it, and the number of its comments (each by the user "u")
Issue == [late : BOOLEAN, comments : 0..1]

\* a variant of Handler: an error of the issue listing is logged too and the
\* loop goes on
HandlerToleratesListing(call) ==
    IF call \in {"get_comments", "get_teams", "get_issues"}
    THEN "continue"
    ELSE IF call = "makedirs"
    THEN "uncaught"
    ELSE "except"

\* where an exception raised by call is handled: "continue" (the try of
\* lines 181-193 and the try of get_devops_team_members log a warning and
\* go on), "except" (the handlers of main, which exit with code 1) or
\* "uncaught" (os.makedirs is called before the try)
Handler(call) ==
    IF call \in {"get_comments", "get_teams"}
    THEN "continue"
    ELSE IF call = "makedirs"
    THEN "uncaught"
    ELSE "except"

\* comment_by_author of an issue whose comments were fetched
CommentByAuthor(issue) == IF issue.comments = 0 THEN <<>> ELSE <<issue.comments>>

\* issue_data, lines 196-207
IssueData(number, issue, comment_by_author) ==
    [number |-> number,
     comments_count |-> issue.comments,
     comments_by_author |-> comment_by_author]

InitFetch ==
    /\ pc = "fetch"
    /\ token \in BOOLEAN
    /\ g = "None"
    /\ issues \in UNION {[1..n -> Issue] : n \in 0..MaxIssues}
    /\ issue_idx = 0
    /\ issues_data = <<>>
    /\ devops_team_members = <<>>
    /\ output = NotSaved
    /\ first_month = EmptyFrame
    /\ second_month = EmptyFrame
    /\ EngineIdle
    /\ NamesIdle
    /\ OthersIdle

\* main up to the try: the data directory and the token
FetchStart ==
    /\ pc = "fetch"
    /\ \E made \in BOOLEAN :
         IF ~made
         THEN /\ errors' = Append(errors, "makedirs")
              /\ exit_code' = Exit(1)
              /\ pc' = "exited"
         ELSE IF ~token
         THEN /\ exit_code' = Exit(1)
              /\ pc' = "exited"
              /\ UNCHANGED errors
         ELSE /\ pc' = "auth"
              /\ UNCHANGED <<errors, exit_code>>
    /\ UNCHANGED <<first_month, second_month, first_filtered, second_filtered,
                   first_metric_filtered, second_metric_filtered, metric_idx,
                   metric_name, min_diff, passed_first, passed_second, result_df,
                   all_results, exports, name_vars, fetch_vars, other_vars>>

\* a variant of Close: the finally clause leaves the client as it is
CloseNothing(client) == client

\* the finally clause, lines 272-275: if g: g.close()
Close(client) == IF client = "open" THEN "closed" ELSE client

\* lines 139-148: the client, the user and the repository; if Auth.Token or
\* Github raises, g is still None
FetchAuth ==
    /\ pc = "auth"
    /\ \E created \in BOOLEAN, ok \in BOOLEAN :
         IF ~created
         THEN /\ ok
              /\ UNCHANGED g
              /\ errors' = Append(errors, "Github")
              /\ pc' = Handler("Github")
         ELSE IF ok
         THEN /\ g' = "open"
              /\ pc' = "team"
              /\ UNCHANGED errors
         ELSE /\ g' = "open"
              /\ errors' = Append(errors, "get_repo")
              /\ pc' = Handler("get_repo")
    /\ UNCHANGED <<token, issues, issue_idx, issues_data, devops_team_members,
                   output, exit_code>>
    /\ UNCHANGED <<first_month, second_month, first_filtered, second_filtered,
                   first_metric_filtered, second_metric_filtered, metric_idx,
                   metric_name, min_diff, passed_first, passed_second, result_df,
                   all_results, exports, name_vars, other_vars>>

\* line 154, get_devops_team_members: the members of the team, none if there
\* is no such team or if the API raises
FetchTeam ==
    /\ pc = "team"
    /\ \E ok \in BOOLEAN, members \in {<<>>, <<"dev1">>} :
         IF ok
         THEN /\ devops_team_members' = members
              /\ pc' = "issues"
              /\ UNCHANGED errors
         ELSE /\ members = <<>>
              /\ devops_team_members' = <<>>
              /\ errors' = Append(errors, "get_teams")
              /\ pc' = IF Handler("get_teams") = "continue"
                       THEN "issues" ELSE Handler("get_teams")
    /\ UNCHANGED <<token, g, issues, issue_idx, issues_data, output, exit_code>>
    /\ UNCHANGED <<first_month, second_month, first_filtered, second_filtered,
                   first_metric_filtered, second_metric_filtered, metric_idx,
                   metric_name, min_diff, passed_first, passed_second, result_df,
                   all_results, exports, name_vars, other_vars>>

\* lines 171-208, one pass of the for loop over the issues: the listing can
\* raise when the next issue is fetched, the comments can raise
FetchIssue ==
    /\ pc = "issues"
    /\ issue_idx < Len(issues)
    /\ \E listed \in BOOLEAN, commented \in BOOLEAN :
         IF ~listed
         THEN /\ commented
              /\ errors' = Append(errors, "get_issues")
              /\ IF Handler("get_issues") = "continue"
                 THEN /\ issue_idx' = issue_idx + 1
                      /\ UNCHANGED pc
                 ELSE /\ pc' = Handler("get_issues")
                      /\ UNCHANGED issue_idx
              /\ UNCHANGED issues_data
         ELSE IF issues[issue_idx + 1].late
         THEN /\ commented
              /\ issue_idx' = issue_idx + 1
              /\ UNCHANGED <<issues_data, errors, pc>>
         ELSE IF commented
         THEN /\ issues_data' =
                    Append(issues_data,
                           IssueData(issue_idx + 1, issues[issue_idx + 1],
                                     CommentByAuthor(issues[issue_idx + 1])))
              /\ issue_idx' = issue_idx + 1
              /\ UNCHANGED <<errors, pc>>
         ELSE /\ errors' = Append(errors, "get_comments")
              /\ IF Handler("get_comments") = "continue"
                 THEN /\ issues_data' =
                            Append(issues_data,
                                   IssueData(issue_idx + 1, issues[issue_idx + 1], <<>>))
                      /\ UNCHANGED pc
                 ELSE /\ pc' = Handler("get_comments")
                      /\ UNCHANGED issues_data
              /\ issue_idx' = issue_idx + 1
    /\ UNCHANGED <<token, g, issues, devops_team_members, output, exit_code>>
    /\ UNCHANGED <<first_month, second_month, first_filtered, second_filtered,
                   first_metric_filtered, second_metric_filtered, metric_idx,
                   metric_name, min_diff, passed_first, passed_second, result_df,
                   all_results, exports, name_vars, other_vars>>

\* lines 211-258, after the loop: the summary and the JSON file; open can
\* raise, which leaves no file, and so can json.dump, which leaves a
\* truncated one
FetchWrite ==
    /\ pc = "issues"
    /\ issue_idx = Len(issues)
    /\ \E written \in BOOLEAN, opened \in BOOLEAN :
         IF written
         THEN /\ opened
              /\ output' = [saved |-> TRUE,
                            truncated |-> FALSE,
                            issues |-> issues_data,
                            devops_team_members |-> devops_team_members]
              /\ pc' = "finally"
              /\ UNCHANGED errors
         ELSE /\ errors' = Append(errors, "open")
              /\ pc' = Handler("open")
              /\ output' = IF opened THEN Truncated ELSE NotSaved
    /\ UNCHANGED <<token, g, issues, issue_idx, issues_data, devops_team_members,
                   exit_code>>
    /\ UNCHANGED <<first_month, second_month, first_filtered, second_filtered,
                   first_metric_filtered, second_metric_filtered, metric_idx,
                   metric_name, min_diff, passed_first, passed_second, result_df,
                   all_results, exports, name_vars, other_vars>>

\* lines 260-275: a handler of main logs the error and calls sys.exit(1); the
\* finally clause closes the client on the way out
FetchExcept ==
    /\ pc = "except"
    /\ g' = Close(g)
    /\ exit_code' = Exit(1)
    /\ pc' = "exited"
    /\ UNCHANGED <<token, issues, issue_idx, issues_data, devops_team_members,
                   output, errors>>
    /\ UNCHANGED <<first_month, second_month, first_filtered, second_filtered,
                   first_metric_filtered, second_metric_filtered, metric_idx,
                   metric_name, min_diff, passed_first, passed_second, result_df,
                   all_results, exports, name_vars, other_vars>>

\* lines 272-278: the try block has ended; the finally clause closes the
\* client, main returns and the process exits with code 0
FetchFinally ==
    /\ pc = "finally"
    /\ g' = Close(g)
    /\ exit_code' = Exit(0)
    /\ pc' = "exited"
    /\ UNCHANGED <<token, issues, issue_idx, issues_data, devops_team_members,
                   output, errors>>
    /\ UNCHANGED <<first_month, second_month, first_filtered, second_filtered,
                   first_metric_filtered, second_metric_filtered, metric_idx,
                   metric_name, min_diff, passed_first, passed_second, result_df,
                   all_results, exports, name_vars, other_vars>>

NextFetch ==
    \/ FetchStart
    \/ FetchAuth
    \/ FetchTeam
    \/ FetchIssue
    \/ FetchWrite
    \/ FetchExcept
    \/ FetchFinally

SpecFetch == InitFetch /\ [][NextFetch]_vars

----------------------------------------------------------------------------
(* The fetch script: dates. A datetime at midnight UTC is the number of its   *)
(* day, counted as date.toordinal counts (day 1 is 0001-01-01), so that       *)
(* adding a timedelta of n days adds n and min is the smaller number.         *)

IsLeap(y) == y % 4 = 0 /\ (y % 100 # 0 \/ y % 400 = 0)

\* the days of the months of a year that is not a leap year
DaysInMonth == <<31, 28, 31, 30, 31, 30, 31, 31, 30, 31, 30, 31>>

\* the days of year y before the first of month m
RECURSIVE DaysBeforeMonth(_, _)
DaysBeforeMonth(y, m) ==
    IF m = 1
    THEN 0
    ELSE DaysBeforeMonth(y, m - 1) + DaysInMonth[m - 1]
         + (IF m - 1 = 2 /\ IsLeap(y) THEN 1 ELSE 0)

\* the days before the first of January of year y
DaysBeforeYear(y) ==
    (y - 1) * 365 + ((y - 1) \div 4) - ((y - 1) \div 100) + ((y - 1) \div 400)

\* datetime(y, m, d, tzinfo=timezone.utc) raises ValueError unless this holds
ValidDate(y, m, d) ==
    /\ y \in 1..9999
    /\ m \in 1..12
    /\ d \in 1..(DaysInMonth[m] + (IF m = 2 /\ IsLeap(y) THEN 1 ELSE 0))

\* datetime(y, m, d, tzinfo=timezone.utc)
Date(y, m, d) == DaysBeforeYear(y) + DaysBeforeMonth(y, m) + d

\* what a call has not given yet
NotCalled == [called |-> FALSE, raised |-> FALSE, start |-> 0, end |-> 0]

\* the call raised
Raised == [called |-> TRUE, raised |-> TRUE, start |-> 0, end |-> 0]

\* the call returned start_date, end_date
Range(s, e) == [called |-> TRUE, raised |-> FALSE, start |-> s, end |-> e]

\* a variant of get_month_range: the end of December stays in the same year
get_month_range_same_year(y, m) ==
    IF ~ValidDate(y, m, 1)
    THEN Raised
    ELSE IF m = 12
    THEN Range(Date(y, m, 1), Date(y, 1, 1))
    ELSE Range(Date(y, m, 1), Date(y, m + 1, 1))

get_month_range(y, m) ==
    IF ~ValidDate(y, m, 1)
    THEN Raised
    ELSE IF m = 12
    THEN Range(Date(y, m, 1), IF y + 1 \in 1..9999 THEN Date(y + 1, 1, 1) ELSE 0)
    ELSE Range(Date(y, m, 1), Date(y, m + 1, 1))

\* min(potential_end, month_end)
MinDate(a, b) == IF a <= b THEN a ELSE b

\* the end of a week from its start and the end of the month
WeekEnd(start, month_end) == MinDate(start + 7, month_end)

get_week_range(y, m, w) ==
    IF ~(1 <= w /\ w <= 5)
    THEN Raised
    ELSE IF ~ValidDate(y, m, 1)
    THEN Raised
    ELSE Range(Date(y, m, 1) + (w - 1) * 7,
               WeekEnd(Date(y, m, 1) + (w - 1) * 7,
                       IF m = 12 THEN Date(y + 1, 1, 1) ELSE Date(y, m + 1, 1)))

\* the years of the calls: a leap year, the year before it, a century year
\* that is a leap year and one that is not
Years == {1900, 2000, 2023, 2024}

\* the week numbers of the calls: 1 to 5, and one on each side
Weeks == 0..6

InitDates ==
    /\ pc = "dates"
    /\ year \in Years
    /\ month \in 1..12
    /\ week_ranges = [w \in Weeks |-> NotCalled]
    /\ month_range = NotCalled
    /\ argv = <<>>
    /\ current_date = [year |-> 0, month |-> 0]
    /\ week = NoWeek
    /\ fetch_repo_name = <<>>
    /\ start_date = 0
    /\ end_date = 0
    /\ SummaryIdle
    /\ VizIdle
    /\ generate_df = <<>>
    /\ first_month = EmptyFrame
    /\ second_month = EmptyFrame
    /\ EngineIdle
    /\ NamesIdle
    /\ FetchIdle

\* a call get_week_range(year, month, w)
CallGetWeekRange ==
    /\ pc = "dates"
    /\ \E w \in Weeks :
         /\ ~week_ranges[w].called
         /\ week_ranges' = [week_ranges EXCEPT ![w] = get_week_range(year, month, w)]
    /\ UNCHANGED <<pc, month_range, argv, current_date, year, month, week,
                   fetch_repo_name, start_date, end_date, summary_vars, viz_vars,
                   generate_df>>
    /\ UNCHANGED <<first_month, second_month, first_filtered, second_filtered,
                   first_metric_filtered, second_metric_filtered, metric_idx,
                   metric_name, min_diff, passed_first, passed_second, result_df,
                   all_results, exports, errors, exit_code, name_vars, fetch_vars>>

\* a call get_month_range(year, month)
CallGetMonthRange ==
    /\ pc = "dates"
    /\ ~month_range.called
    /\ month_range' = get_month_range(year, month)
    /\ UNCHANGED <<pc, week_ranges, argv, current_date, year, month, week,
                   fetch_repo_name, start_date, end_date, summary_vars, viz_vars,
                   generate_df>>
    /\ UNCHANGED <<first_month, second_month, first_filtered, second_filtered,
                   first_metric_filtered, second_metric_filtered, metric_idx,
                   metric_name, min_diff, passed_first, passed_second, result_df,
                   all_results, exports, errors, exit_code, name_vars, fetch_vars>>

NextDates ==
    \/ CallGetWeekRange
    \/ CallGetMonthRange

SpecDates == InitDates /\ [][NextDates]_vars

----------------------------------------------------------------------------
(* The fetch script: the command line. argv is sys.argv without the script    *)
(* name; main reads it at lines 96-124 and computes the date range at lines   *)
(* 156-160, and nothing in between assigns year, month, week or repo_name.    *)

DigitChars == <<"0", "1", "2", "3", "4", "5", "6", "7", "8", "9">>

DigitValue(c) == (CHOOSE i \in 1..10 : DigitChars[i] = c) - 1

\* int(arg) does not raise ValueError: decimal digits, with or without sign
IsInt(arg) ==
    \/ arg # <<>> /\ \A i \in 1..Len(arg) : arg[i] \in Digits
    \/ /\ Len(arg) > 1
       /\ arg[1] \in {"-", "+"}
       /\ \A i \in 2..Len(arg) : arg[i] \in Digits

RECURSIVE DecimalValue(_)
DecimalValue(digits) ==
    IF digits = <<>>
    THEN 0
    ELSE 10 * DecimalValue(SubSeq(digits, 1, Len(digits) - 1))
         + DigitValue(digits[Len(digits)])

\* int(arg), for an arg that IsInt
IntOf(arg) ==
    IF arg[1] = "-" THEN 0 - DecimalValue(Tail(arg))
    ELSE IF arg[1] = "+" THEN DecimalValue(Tail(arg))
    ELSE DecimalValue(arg)

DefaultRepo == <<"H", "a", "r", "u", "n", "A", "l", "K", "a", "w", "s", "e", "r",
                 "/", "c", "h", "a", "r", "t", "s">>

\* the loop over remaining_args, lines 112-124: week and repo_name after the
\* arguments from position i on
RECURSIVE Remaining(_, _, _, _)
Remaining(args, i, w, r) ==
    IF i > Len(args)
    THEN [week |-> w, repo_name |-> r]
    ELSE IF IsInt(args[i]) /\ 1 <= IntOf(args[i]) /\ IntOf(args[i]) <= 5
    THEN Remaining(args, i + 1, <<IntOf(args[i])>>, r)
    ELSE IF Contains(args[i], <<"/">>)
    THEN Remaining(args, i + 1, w, args[i])
    ELSE Remaining(args, i + 1, w, r)

\* the words of the command lines
YearArgs == {<<"2", "0", "2", "3">>, <<"2", "0", "2", "4">>}

MonthArgs == {<<"0">>, <<"2">>, <<"1", "2">>, <<"1", "3">>}

WeekArgs == {<<"1">>, <<"5">>, <<"6">>}

RepoArgs == {<<"o", "/", "r">>, <<"r">>}

\* the command lines: up to four words, the third and fourth a week or a
\* repository in either order, and a year that is not a number
Argvs ==
    {<<>>, <<<<"x">>, <<"2">>>>}
    \cup {<<y>> : y \in YearArgs}
    \cup {<<y, m>> : y \in YearArgs, m \in MonthArgs}
    \cup {<<y, m, a>> : y \in YearArgs, m \in MonthArgs, a \in WeekArgs \cup RepoArgs}
    \cup {<<y, m, a, b>> : y \in YearArgs, m \in MonthArgs,
                           a \in WeekArgs \cup RepoArgs, b \in WeekArgs \cup RepoArgs}

\* the dates of the runs, year and month
Todays == {[year |-> 2026, month |-> 11], [year |-> 2023, month |-> 2]}

InitArgs ==
    /\ pc = "args"
    /\ argv \in Argvs
    /\ current_date \in Todays
    /\ year = 0
    /\ month = 0
    /\ week = NoWeek
    /\ fetch_repo_name = <<>>
    /\ start_date = 0
    /\ end_date = 0
    /\ DatesIdle
    /\ SummaryIdle
    /\ VizIdle
    /\ generate_df = <<>>
    /\ first_month = EmptyFrame
    /\ second_month = EmptyFrame
    /\ EngineIdle
    /\ NamesIdle
    /\ FetchIdle

\* lines 96-129: year, month, week and repo_name from the command line; the
\* ValueError of int() and the IndexError of calendar.month_name[month] are
\* raised outside the try and end the process with a traceback, code 1
FetchArgs ==
    /\ pc = "args"
    /\ IF Len(argv) >= 2 /\ ~(IsInt(argv[1]) /\ IsInt(argv[2]))
       THEN /\ errors' = Append(errors, "int")
            /\ exit_code' = Exit(1)
            /\ pc' = "exited"
            /\ UNCHANGED <<year, month, week, fetch_repo_name>>
       ELSE \E ym \in {IF Len(argv) >= 2
                       THEN [year |-> IntOf(argv[1]), month |-> IntOf(argv[2])]
                       ELSE current_date} :
            \E rest \in {Remaining(IF Len(argv) >= 2
                                   THEN SubSeq(argv, 3, Len(argv)) ELSE <<>>,
                                   1, NoWeek, DefaultRepo)} :
                /\ year' = ym.year
                /\ month' = ym.month
                /\ week' = rest.week
                /\ fetch_repo_name' = rest.repo_name
                /\ IF ym.month \in (0 - 13)..12
                   THEN /\ pc' = "parsed"
                        /\ UNCHANGED <<errors, exit_code>>
                   ELSE /\ errors' = Append(errors, "month_name")
                        /\ exit_code' = Exit(1)
                        /\ pc' = "exited"
    /\ UNCHANGED <<argv, current_date, start_date, end_date, dates_vars,
                   summary_vars, viz_vars, generate_df>>
    /\ UNCHANGED <<first_month, second_month, first_filtered, second_filtered,
                   first_metric_filtered, second_metric_filtered, metric_idx,
                   metric_name, min_diff, passed_first, passed_second, result_df,
                   all_results, exports, name_vars, fetch_vars>>

\* lines 156-160: the date range of the run; a ValueError of datetime is
\* raised inside the try, whose handler ends the process with code 1
FetchRange ==
    /\ pc = "parsed"
    /\ \E range \in {IF week # NoWeek
                     THEN get_week_range(year, month, week[1])
                     ELSE get_month_range(year, month)} :
         IF range.raised
         THEN /\ errors' = Append(errors, "datetime")
              /\ exit_code' = Exit(1)
              /\ pc' = "exited"
              /\ UNCHANGED <<start_date, end_date>>
         ELSE /\ start_date' = range.start
              /\ end_date' = range.end
              /\ pc' = "ranged"
              /\ UNCHANGED <<errors, exit_code>>
    /\ UNCHANGED <<argv, current_date, year, month, week, fetch_repo_name,
                   dates_vars, summary_vars, viz_vars, generate_df>>
    /\ UNCHANGED <<first_month, second_month, first_filtered, second_filtered,
                   first_metric_filtered, second_metric_filtered, metric_idx,
                   metric_name, min_diff, passed_first, passed_second, result_df,
                   all_results, exports, name_vars, fetch_vars>>

NextArgs ==
    \/ FetchArgs
    \/ FetchRange

SpecArgs == InitArgs /\ [][NextArgs]_vars

----------------------------------------------------------------------------
(* The summary outputs of main on their own: a run that has completed the    *)
(* loop over the metrics, with result frames of up to MaxDeltas rows. The    *)
(* period frames the results came from are left out.                         *)

MaxDeltas == 6

\* the differences the row at position i can have, each significant for
\* every metric: an improvement of its own size, a deterioration and, for
\* the first three rows, an improvement of one common size
Differences(i) ==
    {0 - 20 - i, 30} \cup (IF i <= 3 THEN {0 - 40} ELSE {})

\* the repository of the row at position i of a result frame
DeltaRepo(i) == <<"r", DigitChars[i + 1]>>

\* the row compare_metrics appends for a repository whose value went from 100
\* to 100 + d
DeltaRow(i, d, m) ==
    [repo |-> DeltaRepo(i),
     branch |-> Branch_stg,
     clean |-> clean_repo_name(DeltaRepo(i)),
     first |-> Num(100),
     second |-> Num(100 + d),
     difference |-> Num(d),
     metric |-> m]

\* the result frames of n rows of the metric m: one row per repository
RECURSIVE DeltaFramesOf(_, _)
DeltaFramesOf(m, n) ==
    IF n = 0
    THEN {<<>>}
    ELSE {Append(df, DeltaRow(n, d, m)) :
            df \in DeltaFramesOf(m, n - 1), d \in Differences(n)}

\* the result frames of the metric m
DeltaFrames(m) == UNION {DeltaFramesOf(m, n) : n \in 0..MaxDeltas}

InitSummary ==
    /\ pc = "summary"
    /\ \E m \in Metrics, others \in {0 - 20, 30} :
       \E df \in DeltaFrames(m) :
           /\ all_results = [x \in Metrics |->
                               IF x = m THEN df ELSE <<DeltaRow(1, others, x)>>]
           /\ exports = [x \in Metrics |->
                           create_excel_with_color(
                               IF x = m THEN df ELSE <<DeltaRow(1, others, x)>>)]
    /\ metric_idx = Len(metrics) + 1
    /\ metric_name = metrics[Len(metrics)]
    /\ first_month = EmptyFrame
    /\ second_month = EmptyFrame
    /\ first_filtered = EmptyFrame
    /\ second_filtered = EmptyFrame
    /\ first_metric_filtered = EmptyFrame
    /\ second_metric_filtered = EmptyFrame
    /\ min_diff = 0
    /\ passed_first = EmptyFrame
    /\ passed_second = EmptyFrame
    /\ result_df = all_results[metric_name]
    /\ errors = <<>>
    /\ exit_code = NotExited
    /\ NamesIdle
    /\ FetchIdle
    /\ OthersIdle

NextSummary ==
    \/ MainSummary
    \/ MainExit

SpecSummary == InitSummary /\ [][NextSummary]_vars

----------------------------------------------------------------------------
(* read_excel_data (src/visualize_improvements.py): category_df[c] holds the *)
(* rows of the file of category c, each with its Clean Name and its two      *)
(* values; data[c] is the dictionary returned for c, a sequence of entries   *)
(* in the order of insertion.                                                *)

MaxVizRows == 6

Categories == {"Security Hotspot", "Duplications", "Code Smell"}

\* df['Improvement'] = df['<category> (first)'] - df['<category> (second)']
Improvement(row) == Subtract(row.first, row.second)

\* df[df['Improvement'] > 0]: the positions of the rows kept
Improving(df) ==
    {i \in 1..Len(df) : ~isna(Improvement(df[i])) /\ Improvement(df[i])[1] > 0}

\* .sort_values('Improvement', ascending=False): the orders the rows at the
\* positions S can come out in; rows of equal improvement come in any order
RECURSIVE SortedDescending(_, _)
SortedDescending(df, S) ==
    IF S = {}
    THEN {<<>>}
    ELSE UNION {{<<i>> \o o : o \in SortedDescending(df, S \ {i})} :
                  i \in {j \in S : \A k \in S :
                                     Improvement(df[j])[1] >= Improvement(df[k])[1]}}

\* the dictionary d after d[name] = value: a key that is present keeps its
\* place and takes the new value
SetItem(d, name, value) ==
    IF \E i \in 1..Len(d) : d[i].name = name
    THEN [i \in 1..Len(d) |-> IF d[i].name = name
                              THEN [name |-> name, value |-> value]
                              ELSE d[i]]
    ELSE Append(d, [name |-> name, value |-> value])

\* dict(zip(top['Clean Name'], top['Improvement'])), top being the rows of
\* df at the positions o[1], ..., o[n]
RECURSIVE DictZip(_, _, _)
DictZip(df, o, n) ==
    IF n = 0
    THEN <<>>
    ELSE SetItem(DictZip(df, o, n - 1), df[o[n]].clean, Improvement(df[o[n]]))

\* the dictionaries read_excel_data can return for the rows df of a category
CategoryData(df) ==
    {DictZip(df, o, IF Len(o) < 5 THEN Len(o) ELSE 5) :
        o \in SortedDescending(df, Improving(df))}

\* the Clean Name of the row at position i: its own, or one that the first
\* three rows can share
VizNames(i) ==
    {<<"n", DigitChars[i + 1]>>}
    \cup (IF i <= 3 THEN {<<"d", "e", "l", "t", "a">>} ELSE {})

\* the value of the second period of the row at position i, the first being
\* 100: an improvement of its own size, no change and, for the first two rows,
\* an improvement of one common size
VizSeconds(i) ==
    {Num(90 - i), Num(100)} \cup (IF i <= 2 THEN {Num(50)} ELSE {})

\* the files of n rows
RECURSIVE VizFramesOf(_)
VizFramesOf(n) ==
    IF n = 0
    THEN {<<>>}
    ELSE {Append(df, [clean |-> name, first |-> Num(100), second |-> second]) :
            df \in VizFramesOf(n - 1), name \in VizNames(n), second \in VizSeconds(n)}

VizFrames == UNION {VizFramesOf(n) : n \in 0..MaxVizRows}

InitViz ==
    /\ pc = "viz"
    /\ \E c \in Categories, df \in VizFrames :
          category_df = [x \in Categories |-> IF x = c THEN df ELSE <<>>]
    /\ data = [x \in Categories |-> <<>>]
    /\ ArgsIdle
    /\ DatesIdle
    /\ SummaryIdle
    /\ generate_df = <<>>
    /\ first_month = EmptyFrame
    /\ second_month = EmptyFrame
    /\ EngineIdle
    /\ NamesIdle
    /\ FetchIdle

\* data = read_excel_data(security_file, duplications_file, code_smell_file)
CallReadExcelData ==
    /\ pc = "viz"
    /\ \E sec \in CategoryData(category_df["Security Hotspot"]),
          dup \in CategoryData(category_df["Duplications"]),
          smell \in CategoryData(category_df["Code Smell"]) :
         data' = [x \in Categories |->
                    IF x = "Security Hotspot" THEN sec
                    ELSE IF x = "Duplications" THEN dup
                    ELSE smell]
    /\ pc' = "read"
    /\ UNCHANGED <<category_df, args_vars, dates_vars, summary_vars, generate_df>>
    /\ UNCHANGED <<first_month, second_month, first_filtered, second_filtered,
                   first_metric_filtered, second_metric_filtered, metric_idx,
                   metric_name, min_diff, passed_first, passed_second, result_df,
                   all_results, exports, errors, exit_code, name_vars, fetch_vars>>

SpecViz == InitViz /\ [][CallReadExcelData]_vars

----------------------------------------------------------------------------
(* The two variants of compare_metrics on the same arguments: the call of    *)
(* analytics.py, then the call of generate.py on the frames the first call   *)
(* was given, for the same metric and min_diff.                              *)

CallGenerateCompareMetrics ==
    /\ pc \in {"returned", "raised"}
    /\ \E out \in generate_compare_metrics(passed_first, passed_second,
                                           metric_name, min_diff) :
         /\ generate_df' = out.results
         /\ pc' = IF pc = "returned"
                  THEN (IF out.raised THEN "generate_raised" ELSE "both_returned")
                  ELSE (IF out.raised THEN "both_raised" ELSE "analytics_raised")
    /\ UNCHANGED <<args_vars, dates_vars, summary_vars, viz_vars>>
    /\ UNCHANGED <<first_month, second_month, first_filtered, second_filtered,
                   first_metric_filtered, second_metric_filtered, metric_idx,
                   metric_name, min_diff, passed_first, passed_second, result_df,
                   all_results, exports, errors, exit_code, name_vars, fetch_vars>>

NextVariants ==
    \/ CallCompareMetrics
    \/ CallGenerateCompareMetrics

SpecVariants == Init /\ [][NextVariants]_vars

----------------------------------------------------------------------------
(* The runs of the scripts: the metric comparison (main of analytics.py and   *)
(* of generate.py) and the issue-tracker fetch                                *)

NextMain ==
    \/ MainLoad
    \/ MainLoadFails
    \/ MainMetric
    \/ MainSummary
    \/ MainExit

InitScripts == Init \/ InitFetch

NextScripts == NextMain \/ NextFetch

SpecScripts == InitScripts /\ [][NextScripts]_vars

----------------------------------------------------------------------------
(* The specification of the run of main and of the direct calls *)

Next ==
    \/ MainLoad
    \/ MainLoadFails
    \/ MainMetric
    \/ MainSummary
    \/ MainExit
    \/ CallCompareMetrics

Spec == Init /\ [][Next]_vars

----------------------------------------------------------------------------
(* Vocabulary of the properties *)

\* result_df holds what the last call of compare_metrics returned, for the
\* frames passed_first and passed_second
Called ==
    \/ pc = "returned"
    \/ pc \in {"loop", "summary", "done"} /\ metric_idx > 1

\* the identity key of a record: repository, separator, branch
IdentityKey(row) == row["Repository Name"] \o <<"_", "_", "_">> \o row["Branch"]

HasKey(row) == row["Repository Name"] # NaNStr /\ row["Branch"] # NaNStr

\* the record lacks its repository or its branch (null or empty)
Incomplete(row) ==
    \/ row["Repository Name"] \in {NaNStr, <<>>}
    \/ row["Branch"] \in {NaNStr, <<>>}

\* the positions of the rows of df that carry the key k
Carriers(df, k) ==
    {i \in 1..Len(df.rows) : HasKey(df.rows[i]) /\ IdentityKey(df.rows[i]) = k}

InputKeys(df) == {IdentityKey(df.rows[i]) : i \in {j \in 1..Len(df.rows) : HasKey(df.rows[j])}}

\* the first row of df that carries the key k
Carrier(df, k) ==
    df.rows[CHOOSE i \in Carriers(df, k) : \A j \in Carriers(df, k) : i <= j]

\* the key of an emitted delta
DeltaKey(delta) == delta.repo \o <<"_", "_", "_">> \o delta.branch

\* the positions of the deltas emitted for the key k
DeltasOf(k) == {n \in 1..Len(result_df) : DeltaKey(result_df[n]) = k}

\* the keys the loop computes a difference for: in both periods, repository
\* not empty, the metric present in the first row of each period
Computed ==
    {k \in InputKeys(passed_first) \cap InputKeys(passed_second) :
        /\ Len(Split(k, <<"_", "_", "_">>)) = 2
        /\ Split(k, <<"_", "_", "_">>)[1] # <<>>
        /\ Carrier(passed_first, k)[metric_name] # NaN
        /\ Carrier(passed_second, k)[metric_name] # NaN}

\* period B minus period A, for a computed key
Delta(k) ==
    Carrier(passed_second, k)[metric_name][1] - Carrier(passed_first, k)[metric_name][1]

\* the significance policy: Code Smell by threshold, the others by change
Significant(metric, d, threshold) ==
    IF metric = "Code Smell" THEN Abs(d) >= threshold ELSE d # 0

----------------------------------------------------------------------------
(* Properties *)

\* C1: every delta compare_metrics emits has an identity key (repository,
\* '___', branch) that occurs both in the period-A frame and in the period-B
\* frame passed to it.
C1_DeltaKeysInBothPeriods ==
    Called =>
        \A n \in 1..Len(result_df) :
            DeltaKey(result_df[n]) \in
                InputKeys(passed_first) \cap InputKeys(passed_second)

\* C1 witness: a call returned a delta although one period holds a key that
\* the other does not.
C1_Witness ==
    /\ Called
    /\ result_df # <<>>
    /\ InputKeys(passed_first) \ InputKeys(passed_second) # {}
    /\ InputKeys(passed_second) \ InputKeys(passed_first) # {}

\* C2: for every key carried in both periods by complete records, with the
\* metric present in both (first row of each period) and a significant
\* difference, a returning call emits exactly one delta, whose before value is
\* the period-A value, whose after value is the period-B value and whose
\* difference is after minus before.
C2_OneDeltaPerSignificantKey ==
    Called =>
        \A k \in Computed :
            (/\ ~Incomplete(Carrier(passed_first, k))
             /\ ~Incomplete(Carrier(passed_second, k))
             /\ Significant(metric_name, Delta(k), 20))
            => /\ Cardinality(DeltasOf(k)) = 1
               /\ \A n \in DeltasOf(k) :
                    /\ result_df[n].first = Carrier(passed_first, k)[metric_name]
                    /\ result_df[n].second = Carrier(passed_second, k)[metric_name]
                    /\ result_df[n].difference = Num(Delta(k))
                    /\ result_df[n].difference =
                         Num(result_df[n].second[1] - result_df[n].first[1])

\* C2 witness: a call returned exactly one delta for a key whose value fell.
C2_Witness ==
    /\ Called
    /\ \E k \in Computed :
          /\ Delta(k) < 0
          /\ Cardinality(DeltasOf(k)) = 1
          /\ ~Incomplete(Carrier(passed_first, k))
          /\ ~Incomplete(Carrier(passed_second, k))

\* C3: for Code Smell a computed delta is in the output if and only if the
\* absolute difference is at least 20.
C3_CodeSmellRetainedIffAtLeast20 ==
    (Called /\ metric_name = "Code Smell") =>
        \A k \in Computed : (DeltasOf(k) # {}) <=> (Abs(Delta(k)) >= 20)

\* C3 witness: a Code Smell call kept a difference of exactly 20 (or -20).
C3_Witness ==
    /\ Called
    /\ metric_name = "Code Smell"
    /\ \E k \in Computed : Abs(Delta(k)) = 20 /\ DeltasOf(k) # {}

\* C3, the other side of the edge: a Code Smell call dropped a difference
\* of 19 (or -19).
C3_Dropped19 ==
    /\ Called
    /\ metric_name = "Code Smell"
    /\ \E k \in Computed : Abs(Delta(k)) = 19 /\ DeltasOf(k) = {}

\* C4: for Duplications and Security Hotspot a computed delta is in the
\* output if and only if the difference is not 0.
C4_OtherMetricsRetainedIffNonZero ==
    (Called /\ metric_name # "Code Smell") =>
        \A k \in Computed : (DeltasOf(k) # {}) <=> (Delta(k) # 0)

\* C4 witness: a Duplications call kept a difference of 1.
C4_Witness ==
    /\ Called
    /\ metric_name = "Duplications"
    /\ \E k \in Computed : Abs(Delta(k)) = 1 /\ DeltasOf(k) # {}

\* C4, the excluded case: a Security Hotspot call dropped a difference of 0.
C4_DroppedZero ==
    /\ Called
    /\ metric_name = "Security Hotspot"
    /\ \E k \in Computed : Delta(k) = 0 /\ DeltasOf(k) = {}

\* C5: for every threshold T passed as min_diff, a computed Code Smell delta
\* is in the output if and only if the absolute difference is at least T.
C5_ThresholdIsMinDiff ==
    (Called /\ metric_name = "Code Smell") =>
        \A k \in Computed : (DeltasOf(k) # {}) <=> (Abs(Delta(k)) >= min_diff)

\* the run of main has processed Code Smell on one record per period:
\* l3-angular-delta on stg, Code Smell 300 in period A and 270 in period B
C6_Scenario ==
    /\ pc \in {"loop", "summary", "done"}
    /\ metric_idx > 1
    /\ Len(first_month.rows) = 1
    /\ first_month.rows[1]["Repository Name"] = Repo_l3_angular_delta
    /\ first_month.rows[1]["Branch"] = Branch_stg
    /\ first_month.rows[1]["Code Smell"] = Num(300)
    /\ Len(second_month.rows) = 1
    /\ second_month.rows[1]["Repository Name"] = Repo_l3_angular_delta
    /\ second_month.rows[1]["Branch"] = Branch_stg
    /\ second_month.rows[1]["Code Smell"] = Num(270)

\* C6: end to end, that run yields exactly one Code Smell delta, for
\* l3-angular-delta on stg with clean name angular-delta, 300 before, 270
\* after, difference -30, and the export marks it green (improvement).
C6_EndToEnd ==
    C6_Scenario =>
        /\ all_results["Code Smell"] =
             <<[repo |-> Repo_l3_angular_delta,
                branch |-> Branch_stg,
                clean |-> <<"a", "n", "g", "u", "l", "a", "r", "-", "d", "e", "l", "t", "a">>,
                first |-> Num(300),
                second |-> Num(270),
                difference |-> Num(-30),
                metric |-> "Code Smell"]>>
        /\ exports["Code Smell"].written
        /\ ~exports["Code Smell"].placeholder
        /\ Len(exports["Code Smell"].rows) = 1
        /\ exports["Code Smell"].rows[1].row = all_results["Code Smell"][1]
        /\ exports["Code Smell"].rows[1].fill = Green

\* C6 witness: the run on that input has ended.
C6_Witness == C6_Scenario /\ pc = "done"

\* C7: every emitted delta has a before and an after value, and a key whose
\* metric is missing in period A or in period B (first row of the period)
\* has no delta.
C7_NoDeltaFromMissingValue ==
    Called =>
        /\ \A n \in 1..Len(result_df) :
              result_df[n].first # NaN /\ result_df[n].second # NaN
        /\ \A k \in InputKeys(passed_first) \cap InputKeys(passed_second) :
              (\/ Carrier(passed_first, k)[metric_name] = NaN
               \/ Carrier(passed_second, k)[metric_name] = NaN)
              => DeltasOf(k) = {}

\* C7 witness: a call returned for a key whose metric is missing in period A
\* and present in period B.
C7_Witness ==
    /\ pc = "returned"
    /\ \E k \in InputKeys(passed_first) \cap InputKeys(passed_second) :
          /\ Carrier(passed_first, k)[metric_name] = NaN
          /\ Carrier(passed_second, k)[metric_name] # NaN
          /\ Split(k, <<"_", "_", "_">>)[1] # <<>>

\* C8: within one period, two records with different (repository, branch)
\* pairs have different values in the RepoAndBranch column.
C8_KeyInjective ==
    pc \in {"returned", "raised"} =>
        \A i, j \in 1..Len(first_month.rows) :
            (/\ HasKey(first_month.rows[i])
             /\ HasKey(first_month.rows[j])
             /\ <<first_month.rows[i]["Repository Name"], first_month.rows[i]["Branch"]>>
                  # <<first_month.rows[j]["Repository Name"], first_month.rows[j]["Branch"]>>)
            => first_month.rows[i]["RepoAndBranch"] # first_month.rows[j]["RepoAndBranch"]

\* C9: a record without repository or branch (null or empty) contributes to
\* no delta, and a call that raises has a complete record whose key does not
\* split in two.
C9_IncompleteRecordsSkipped ==
    /\ Called =>
          \A n \in 1..Len(result_df) :
              /\ ~Incomplete(Carrier(passed_first, DeltaKey(result_df[n])))
              /\ ~Incomplete(Carrier(passed_second, DeltaKey(result_df[n])))
    /\ pc = "raised" =>
          \E i \in 1..Len(passed_first.rows) :
              /\ ~Incomplete(passed_first.rows[i])
              /\ Len(Split(IdentityKey(passed_first.rows[i]), <<"_", "_", "_">>)) # 2

\* C10: a call of compare_metrics leaves the two frames passed to it as they
\* were.
C10_ArgumentsUnchanged ==
    [][CallCompareMetrics => (first_month' = first_month /\ second_month' = second_month)]_vars

\* the frame after has the rows of the frame before, in order and with the
\* same cells, and one more column, RepoAndBranch, holding the key
KeyColumnAdded(before_df, after_df) ==
    /\ "RepoAndBranch" \notin before_df.cols
    /\ after_df.cols = before_df.cols \cup {"RepoAndBranch"}
    /\ Len(after_df.rows) = Len(before_df.rows)
    /\ \A i \in 1..Len(before_df.rows) :
          /\ \A c \in before_df.cols : after_df.rows[i][c] = before_df.rows[i][c]
          /\ after_df.rows[i]["RepoAndBranch"] =
               (IF HasKey(before_df.rows[i]) THEN IdentityKey(before_df.rows[i]) ELSE NaNStr)

\* C10 (amended): a call of compare_metrics, returning or raising, changes
\* the two frames passed to it only by adding the column RepoAndBranch: rows,
\* their order and the cells of the other columns are as before.
C10_OnlyKeyColumnAdded ==
    /\ pc \in {"returned", "raised"} =>
          /\ KeyColumnAdded(passed_first, first_month)
          /\ KeyColumnAdded(passed_second, second_month)
    /\ (pc \in {"loop", "summary", "done", "caught"} /\ metric_name # "") =>
          /\ KeyColumnAdded(passed_first, first_metric_filtered)
          /\ KeyColumnAdded(passed_second, second_metric_filtered)

\* C10 witness: a call returned for frames of two rows, one of them without
\* repository.
C10_Witness ==
    /\ pc = "returned"
    /\ Len(passed_first.rows) = 2
    /\ \E i \in 1..2 : passed_first.rows[i]["Repository Name"] = NaNStr

\* the staging-like substrings
StagingLike == {<<"s", "t", "g">>,
                <<"s", "t", "a", "g", "e">>,
                <<"s", "t", "g", "-", "a", "k", "s">>,
                <<"s", "t", "a", "g", "g", "i", "n", "g">>}

\* branch contains, whatever the case of its letters, one of the substrings
HasStagingLike(branch) ==
    \E f \in StagingLike : \E i \in 1..Len(branch) :
        /\ i + Len(f) - 1 <= Len(branch)
        /\ \A k \in 1..Len(f) : ToLower(branch[i + k - 1]) = f[k]

\* the record is one filter_branch_data has to return
StagingRecord(row) ==
    /\ row["Repository Name"] # NaNStr
    /\ row["Branch"] # NaNStr
    /\ HasStagingLike(row["Branch"])

\* how often the record row occurs in the frame df
Occurrences(df, row) == Cardinality({i \in 1..Len(df.rows) : df.rows[i] = row})

RowsOf(df) == {df.rows[i] : i \in 1..Len(df.rows)}

\* C11: filter_branch_data returns exactly the records with repository and
\* branch present whose branch contains, case-insensitively, one of 'stg',
\* 'stage', 'stg-aks', 'stagging': each such record as often as it occurs in
\* the input, no other record at all, and no column changed.
C11_ExactlyStagingRecords ==
    pc \in {"filtered", "refiltered"} =>
        /\ first_filtered.cols = first_month.cols
        /\ \A row \in RowsOf(first_month) \cup RowsOf(first_filtered) :
              Occurrences(first_filtered, row) =
                 (IF StagingRecord(row) THEN Occurrences(first_month, row) ELSE 0)

\* C11 witness: of two records the call kept the one on branch 'STG' and
\* dropped the one on branch 'dev'.
C11_Witness ==
    /\ pc = "filtered"
    /\ Len(first_month.rows) = 2
    /\ Len(first_filtered.rows) = 1
    /\ \E i \in 1..2 : first_month.rows[i]["Branch"] = Branch_dev
    /\ first_filtered.rows[1]["Branch"] = Branch_STG

\* C12: filter_branch_data is idempotent: applied to its own result it
\* returns the same records, in the same order.
C12_FilterIdempotent ==
    pc = "refiltered" => second_filtered = first_filtered

\* C12 witness: the second call was made on a result of one record, which the
\* first call had selected from a frame of two.
C12_Witness ==
    /\ pc = "refiltered"
    /\ Len(first_filtered.rows) = 1
    /\ Len(first_month.rows) = 2

\* the pattern l<digits>-<word>-<characters other than '_' and space> occurs
\* in s, the l in either case
HasPattern(s) ==
    \E i, d, w \in 1..Len(s) :
        /\ s[i] \in {"l", "L"}
        /\ d > i + 1
        /\ \A k \in (i + 1)..(d - 1) : s[k] \in Digits
        /\ s[d] = "-"
        /\ w > d + 1
        /\ \A k \in (d + 1)..(w - 1) : s[k] \in WordChars
        /\ s[w] = "-"
        /\ w + 1 <= Len(s)
        /\ s[w + 1] \notin {"_", " "}

\* the underscore-delimited segments of s
Segments(s) == Split(s, <<"_">>)

\* the positions of the segments of s that start with the letter l
LSegments(s) ==
    {n \in 1..Len(Segments(s)) : Segments(s)[n] # <<>> /\ Segments(s)[n][1] = "l"}

FirstLSegment(s) ==
    Segments(s)[CHOOSE n \in LSegments(s) : \A m \in LSegments(s) : n <= m]

\* C13: for l<digits>-<technology>-<project> clean_repo_name returns
\* <technology>-<project>, for l<digits>-<technology>-<project>-<suffix> it
\* returns <technology>-<project>-<suffix>; l3-angular-delta gives
\* angular-delta and l3-net-ipex-business gives net-ipex-business.
C13_PrefixStripped ==
    pc = "cleaned" =>
        /\ \A d \in FormDigits, t \in FormTechs, q \in FormProjects :
              /\ calls[1] = FormName(d, t, q) => cleaned = t \o <<"-">> \o q
              /\ \A x \in FormSuffixes :
                    calls[1] = FormName(d, t, q) \o <<"-">> \o x
                    => cleaned = t \o <<"-">> \o q \o <<"-">> \o x
        /\ calls[1] = <<"l", "3", "-", "a", "n", "g", "u", "l", "a", "r", "-", "d", "e", "l", "t", "a">>
           => cleaned = <<"a", "n", "g", "u", "l", "a", "r", "-", "d", "e", "l", "t", "a">>
        /\ calls[1] = <<"l", "3", "-", "n", "e", "t", "-", "i", "p", "e", "x", "-", "b", "u", "s", "i", "n", "e", "s", "s">>
           => cleaned = <<"n", "e", "t", "-", "i", "p", "e", "x", "-", "b", "u", "s", "i", "n", "e", "s", "s">>

\* C13 witness: the call for l3-net-ipex-business has returned.
C13_Witness ==
    /\ pc = "cleaned"
    /\ calls[1] = <<"l", "3", "-", "n", "e", "t", "-", "i", "p", "e", "x", "-", "b", "u", "s", "i", "n", "e", "s", "s">>

\* C14: a name in which the pattern occurs nowhere, neither in the whole name
\* nor in one of its underscore-delimited segments, is returned unchanged.
C14_UnchangedWithoutPattern ==
    (/\ pc = "cleaned"
     /\ ~HasPattern(calls[1])
     /\ \A n \in 1..Len(Segments(calls[1])) : ~HasPattern(Segments(calls[1])[n]))
    => cleaned = calls[1]

\* C15: when the pattern does not match the name and the name contains an
\* underscore, the call returns what clean_repo_name gives for the first
\* segment that starts with l, the one further call made is for that segment
\* and no call is made for a later one; without such a segment no further
\* call is made and the name is returned.
C15_FirstLSegment ==
    (/\ pc = "cleaned"
     /\ ~HasPattern(calls[1])
     /\ \E i \in 1..Len(calls[1]) : calls[1][i] = "_")
    => IF LSegments(calls[1]) # {}
       THEN /\ Len(calls) = 2
            /\ calls[2] = FirstLSegment(calls[1])
            /\ cleaned = clean_repo_name(FirstLSegment(calls[1]))
       ELSE /\ Len(calls) = 1
            /\ cleaned = calls[1]

\* C15 witness: the call for x_la_lb, whose second and third segments start
\* with l, has returned la.
C15_Witness ==
    /\ pc = "cleaned"
    /\ calls[1] = <<"x", "_", "l", "a", "_", "l", "b">>
    /\ cleaned = <<"l", "a">>

\* C16: every call of clean_repo_name returns, and it makes at most one
\* further call: the call made for a segment makes none.
C16_TerminatesDepthOne ==
    /\ [](Len(calls) <= 2 /\ frames <= 2)
    /\ <>(pc = "cleaned")

\* C16 witness: a call that made a further call has returned.
C16_Witness ==
    /\ pc = "cleaned"
    /\ Len(calls) = 2
    /\ frames = 0

\* the position of the metric m in the for loop of main
MetricPosition(m) == CHOOSE i \in 1..Len(metrics) : metrics[i] = m

\* the pass of the loop for the metric m has been completed
Processed(m) == metric_idx > MetricPosition(m)

\* the last pass of the loop has just been completed: result_df, passed_first
\* and passed_second are those of its call of compare_metrics
PassCompleted ==
    /\ pc \in {"loop", "summary"}
    /\ metric_idx > 1
    /\ metric_idx = MetricPosition(metric_name) + 1

\* the two periods passed have no identity key in common; this is so when
\* the branch filter has left no record in one of them
NoCommonKey == InputKeys(passed_first) \cap InputKeys(passed_second) = {}

\* every difference computed by the call is insignificant
AllInsignificant ==
    \A k \in Computed : ~Significant(metric_name, Delta(k), 20)

\* the workbook holding only the "no significant changes" message
Placeholder == [written |-> TRUE, placeholder |-> TRUE, rows |-> <<>>]

\* every record of one of the two periods has been removed: by the dropna of
\* main or of the branch filter (no repository, no branch) or by the mask of
\* the branch filter
PeriodEmptied ==
    /\ pc # "start"
    /\ \/ first_month.rows = <<>>
       \/ second_month.rows = <<>>
       \/ (metric_idx > 0 /\ (first_filtered.rows = <<>> \/ second_filtered.rows = <<>>))

\* the run has failed in main's preparation of the periods or in
\* compare_metrics (not in reading or writing a file)
RunFailed == \E i \in 1..Len(errors) : errors[i] \in {"str", "split"}

\* C17: a run in which a period is left without records or the two periods
\* have no common key does not fail; a completed pass whose periods have no
\* common key or whose differences are all insignificant has an empty result,
\* its export is the "no significant changes" placeholder and the loop has
\* moved on to the next metric; and every metric processed with an empty
\* result has the placeholder export.
C17_EmptyResultGivesPlaceholder ==
    /\ (PeriodEmptied \/ (metric_name # "" /\ NoCommonKey)) => ~RunFailed
    /\ (PassCompleted /\ (NoCommonKey \/ AllInsignificant)) =>
          /\ result_df = <<>>
          /\ exports[metric_name] = Placeholder
    /\ \A m \in Metrics :
          Processed(m) =>
             /\ exports[m].written
             /\ all_results[m] = <<>> <=> exports[m] = Placeholder

\* C17, the part that holds of the code: a completed pass without common key
\* or with insignificant differences only gives the placeholder export, and a
\* call of compare_metrics without common key does not raise.
C17_PlaceholderWhenPassCompletes ==
    /\ (metric_name # "" /\ NoCommonKey) => ~RunFailed
    /\ (PassCompleted /\ (NoCommonKey \/ AllInsignificant)) =>
          /\ result_df = <<>>
          /\ exports[metric_name] = Placeholder
    /\ \A m \in Metrics :
          Processed(m) =>
             /\ exports[m].written
             /\ all_results[m] = <<>> <=> exports[m] = Placeholder

\* C20: in every export each row is green if and only if its difference is
\* negative and red if and only if its difference is positive, and no row
\* has the difference 0 (or no difference at all).
C20_FillBySign ==
    \A m \in Metrics : \A i \in 1..Len(exports[m].rows) :
        /\ exports[m].rows[i].row.difference # NaN
        /\ exports[m].rows[i].row.difference[1] # 0
        /\ exports[m].rows[i].fill = Green <=> exports[m].rows[i].row.difference[1] < 0
        /\ exports[m].rows[i].fill = Red <=> exports[m].rows[i].row.difference[1] > 0

\* C20 witness: a run has exported a row of positive difference, marked red,
\* for a metric other than Code Smell.
C20_Witness ==
    /\ pc = "exited"
    /\ \E i \in 1..Len(exports["Duplications"].rows) :
          /\ exports["Duplications"].rows[i].row.difference[1] > 0
          /\ exports["Duplications"].rows[i].fill = Red

\* the calls whose failure is an I/O or API failure
IOFailures == {"read_excel", "save", "makedirs", "open",
               "get_repo", "get_teams", "get_issues", "get_comments"}

\* C18: a run in which an I/O or API failure has occurred ends with a
\* non-zero exit code; exit code 0 is that of runs without such a failure.
C18_FailureExitsNonZero ==
    (pc = "exited" /\ \E i \in 1..Len(errors) : errors[i] \in IOFailures)
    => exit_code # Exit(0)

Tolerated == {"get_comments", "get_teams"}

\* an error other than those has occurred
Fatal == \E i \in 1..Len(errors) : errors[i] \notin Tolerated

C19_ToleratedWitness ==
    /\ pc = "exited"
    /\ errors = <<"get_comments">>
    /\ output.saved

\* what compare_metrics can return for the metric m alone, on the
\* branch-filtered record sets of the two periods
AloneResults(m) ==
    {out.results :
        out \in compare_metrics(dropna(first_filtered, m),
                                dropna(second_filtered, m), m, 0).outcomes}

\* C21: within a run of main the branch-filtered record sets stay what the
\* branch filter made of the loaded periods, no pass of the loop over the
\* metrics changes them, and the deltas a completed pass has produced for its
\* metric are those compare_metrics gives for that metric alone.
C21_NoStateSharedBetweenMetrics ==
    /\ [](pc \in {"loop", "summary", "done"} =>
            /\ first_filtered = filter_branch_data(first_month)
            /\ second_filtered = filter_branch_data(second_month))
    /\ [](PassCompleted => result_df \in AloneResults(metric_name))
    /\ [][pc = "loop" => /\ first_filtered' = first_filtered
                         /\ second_filtered' = second_filtered]_vars

\* C21 witness: the pass for Code Smell dropped a record without Code Smell
\* value and found nothing, and the pass for Duplications has found a delta
\* for that record.
C21_Witness ==
    /\ pc = "summary"
    /\ all_results["Code Smell"] = <<>>
    /\ all_results["Duplications"] # <<>>
    /\ \E i \in 1..Len(first_filtered.rows) :
          /\ first_filtered.rows[i]["Code Smell"] = NaN
          /\ first_filtered.rows[i]["Duplications"] # NaN

\* the command line has been read and the run goes on
ArgsRead == pc \in {"parsed", "ranged"}

\* the word of the command line that stands for the repository: the third if
\* it is not a number, else the fourth
RepoWord ==
    IF Len(argv) >= 3 /\ ~IsInt(argv[3]) THEN argv[3]
    ELSE IF Len(argv) >= 4 THEN argv[4]
    ELSE <<>>

\* the command line has the form [year] [month] [week] [repo]: numbers for
\* year and month, then a number for the week, then a word that is not a
\* number for the repository, each present only if those before it are (the
\* week may be left out before the repository)
PositionalForm ==
    /\ Len(argv) <= 4
    /\ \A i \in 1..Len(argv) : i <= 2 => IsInt(argv[i])
    /\ Len(argv) = 4 => (IsInt(argv[3]) /\ ~IsInt(argv[4]))

\* C22: in a run of the fetch script that has read its command line, a
\* supplied year is the year of the run, also when it is the only argument, a
\* supplied month is its month, a supplied week number from 1 to 5 is its
\* week and the range fetched is that week's, and a supplied owner/name
\* repository is the repository queried.
C22_ArgumentsDetermineRun ==
    (ArgsRead /\ PositionalForm) =>
        /\ Len(argv) >= 1 => year = IntOf(argv[1])
        /\ Len(argv) >= 2 => month = IntOf(argv[2])
        /\ (Len(argv) >= 3 /\ IsInt(argv[3]) /\ IntOf(argv[3]) \in 1..5) =>
              /\ week = <<IntOf(argv[3])>>
              /\ pc = "ranged" =>
                    /\ start_date = Date(year, month, 1) + 7 * (IntOf(argv[3]) - 1)
                    /\ end_date <= start_date + 7
        /\ Contains(RepoWord, <<"/">>) => fetch_repo_name = RepoWord

\* C22, the command lines main honours: with a year and a month, each of the
\* four arguments determines its parameter; without arguments the run takes
\* the current year and month, no week and the default repository.
C22_YearAndMonthDetermineRun ==
    (ArgsRead /\ PositionalForm) =>
        /\ Len(argv) >= 2 =>
              /\ year = IntOf(argv[1])
              /\ month = IntOf(argv[2])
              /\ (Len(argv) >= 3 /\ IsInt(argv[3]) /\ IntOf(argv[3]) \in 1..5) =>
                    week = <<IntOf(argv[3])>>
              /\ Contains(RepoWord, <<"/">>) => fetch_repo_name = RepoWord
        /\ argv = <<>> =>
              /\ year = current_date.year
              /\ month = current_date.month
              /\ week = NoWeek
              /\ fetch_repo_name = DefaultRepo

\* C22, the failing run: the year is the only argument and the run has taken
\* the current year.
C22_LoneYearIgnored ==
    /\ ArgsRead
    /\ Len(argv) = 1
    /\ year = current_date.year
    /\ year # IntOf(argv[1])

\* the first day of the month after month m of year y
NextMonthStart(y, m) == IF m = 12 THEN Date(y + 1, 1, 1) ELSE Date(y, m + 1, 1)

\* C26: every call get_week_range(year, month, w) with w from 1 to 5 returns
\* a range whose start is a day of the month, with start < end, end not after
\* the first day of the following month and at most 7 days from start to end.
C26_WeekRangeInsideMonth ==
    pc = "dates" =>
        \A w \in 1..5 :
            week_ranges[w].called =>
                /\ ~week_ranges[w].raised
                /\ Date(year, month, 1) <= week_ranges[w].start
                /\ week_ranges[w].start < NextMonthStart(year, month)
                /\ week_ranges[w].start < week_ranges[w].end
                /\ week_ranges[w].end <= NextMonthStart(year, month)
                /\ week_ranges[w].end - week_ranges[w].start <= 7

\* C26, the part that holds of the code: weeks 1 to 4 lie inside the month
\* and are 7 days long; week 5 is not longer and does not run over the
\* month's end.
C26_FirstFourWeeksInsideMonth ==
    pc = "dates" =>
        /\ \A w \in 1..4 :
              week_ranges[w].called =>
                  /\ ~week_ranges[w].raised
                  /\ week_ranges[w].start = Date(year, month, 1) + 7 * (w - 1)
                  /\ week_ranges[w].end = week_ranges[w].start + 7
                  /\ week_ranges[w].end <= NextMonthStart(year, month)
        /\ week_ranges[5].called =>
              /\ ~week_ranges[5].raised
              /\ week_ranges[5].start <= week_ranges[5].end
              /\ week_ranges[5].end = NextMonthStart(year, month)

\* C26, the failing call: week 5 of a February of 28 days is an empty range
\* that starts on the first of March.
C26_EmptyFifthWeek ==
    /\ pc = "dates"
    /\ month = 2
    /\ week_ranges[5].called
    /\ week_ranges[5].start = week_ranges[5].end
    /\ week_ranges[5].start = NextMonthStart(year, month)

\* the number of days of month m of year y, by the calendar
MonthLength(y, m) ==
    IF m \in {4, 6, 9, 11} THEN 30
    ELSE IF m # 2 THEN 31
    ELSE IF y % 400 = 0 \/ (y % 4 = 0 /\ y % 100 # 0) THEN 29
    ELSE 28

\* the five weeks and the month have all been asked for
AllRangesCalled ==
    /\ pc = "dates"
    /\ month_range.called
    /\ \A w \in 1..5 : week_ranges[w].called

\* C27: for every year and month the ranges of weeks 1 to 5 follow one
\* another without gap or overlap (the end of week k is the start of week
\* k + 1), they start where the month range starts and end where it ends, and
\* the month range runs from the first day of the month to the first day of
\* the next month, which for December is the first of January of year + 1.
C27_WeeksPartitionMonth ==
    AllRangesCalled =>
        /\ ~month_range.raised
        /\ \A w \in 1..5 : /\ ~week_ranges[w].raised
                           /\ week_ranges[w].start <= week_ranges[w].end
        /\ \A w \in 1..4 : week_ranges[w].end = week_ranges[w + 1].start
        /\ week_ranges[1].start = month_range.start
        /\ week_ranges[5].end = month_range.end
        /\ month_range.start = Date(year, month, 1)
        /\ month_range.end = month_range.start + MonthLength(year, month)
        /\ month = 12 => month_range.end = Date(year + 1, 1, 1)

\* C27 witness: the five weeks and the month range of a December have been
\* computed, and the month ends 31 days after it starts.
C27_Witness ==
    /\ AllRangesCalled
    /\ month = 12
    /\ week_ranges[5].end = month_range.start + 31

\* an error of a call made through the API client has occurred
ApiError ==
    \E i \in 1..Len(errors) :
        errors[i] \in {"get_repo", "get_teams", "get_issues", "get_comments"}

\* C28: a fetch run that has ended has no open client: if the client was
\* created it has been closed, after a success (exit code 0) and after every
\* error handler (exit code 1) alike; a run without the token has ended with
\* code 1, no client, no API error and nothing fetched or written.
C28_ClientClosedAtExit ==
    pc = "exited" =>
        /\ g \in {"None", "closed"}
        /\ (g = "closed" => exit_code \in {Exit(0), Exit(1)})
        /\ ~token => /\ exit_code = Exit(1)
                     /\ g = "None"
                     /\ ~ApiError
                     /\ issues_data = <<>>
                     /\ output = NotSaved

\* C28 witness: the issue listing failed with the client open, and the run
\* has ended with exit code 1 and the client closed.
C28_Witness ==
    /\ pc = "exited"
    /\ errors = <<"get_issues">>
    /\ exit_code = Exit(1)
    /\ g = "closed"

\* C28, the other two cases: a successful run has closed its client, and a
\* run without token has ended before creating one.
C28_WitnessNoToken ==
    /\ pc = "exited"
    /\ ~token
    /\ errors = <<>>
    /\ g = "None"

\* the period df holds a complete record of this repository and branch
HasRecord(df, repo, branch) ==
    \E i \in 1..Len(df.rows) :
        /\ HasKey(df.rows[i])
        /\ df.rows[i]["Repository Name"] = repo
        /\ df.rows[i]["Branch"] = branch

\* C24: a call of compare_metrics does not raise, in main or on its own, and
\* the repository and branch of every delta it emits are the repository and
\* branch of a record of period A and of a record of period B, whatever
\* underscores the two strings hold.
C24_KeySplitRecoversPair ==
    /\ pc # "raised"
    /\ \A i \in 1..Len(errors) : errors[i] # "split"
    /\ Called =>
          \A n \in 1..Len(result_df) :
              /\ HasRecord(passed_first, result_df[n].repo, result_df[n].branch)
              /\ HasRecord(passed_second, result_df[n].repo, result_df[n].branch)

\* C24, the failing call: a delta names a repository and a branch that no
\* record of the two periods has together.
C24_ShiftedPair ==
    /\ Called
    /\ \E n \in 1..Len(result_df) :
          ~HasRecord(passed_first, result_df[n].repo, result_df[n].branch)

\* the records of df that carry the key k all have the same repository and
\* the same branch
SamePair(df, k) ==
    \A i, j \in Carriers(df, k) :
        /\ df.rows[i]["Repository Name"] = df.rows[j]["Repository Name"]
        /\ df.rows[i]["Branch"] = df.rows[j]["Branch"]

\* the keys that several records of one period carry, all of them records
\* of one repository and branch
Duplicated ==
    {k \in InputKeys(passed_first) \cap InputKeys(passed_second) :
        /\ SamePair(passed_first, k)
        /\ SamePair(passed_second, k)
        /\ \/ Cardinality(Carriers(passed_first, k)) > 1
           \/ Cardinality(Carriers(passed_second, k)) > 1}

\* C25: for a repository and branch that a period holds in several rows, a
\* returning call emits at most one delta, whose before value is that of the
\* first such row of period A and whose after value is that of the first such
\* row of period B.
C25_FirstRowOfDuplicates ==
    Called =>
        \A k \in Duplicated :
            /\ Cardinality(DeltasOf(k)) <= 1
            /\ \A n \in DeltasOf(k) :
                  /\ result_df[n].first = Carrier(passed_first, k)[metric_name]
                  /\ result_df[n].second = Carrier(passed_second, k)[metric_name]

\* C25 witness: period A holds two rows of one repository and branch with
\* different values, and the call has emitted one delta for them.
C25_Witness ==
    /\ Called
    /\ \E k \in Duplicated :
          /\ Cardinality(DeltasOf(k)) = 1
          /\ \E i, j \in Carriers(passed_first, k) :
                passed_first.rows[i][metric_name] # passed_first.rows[j][metric_name]

\* the rows of the list are rows of the frame df with negative difference,
\* no row twice, in ascending order of difference, as many as there are
\* improvements up to n, and no improvement left out is more negative than
\* a listed one
TopList(list, df, n) ==
    /\ \A i \in 1..Len(list) :
          /\ \E j \in 1..Len(df) : df[j] = list[i]
          /\ list[i].difference[1] < 0
    /\ \A i, j \in 1..Len(list) :
          /\ i # j => list[i] # list[j]
          /\ i < j => list[i].difference[1] <= list[j].difference[1]
    /\ Len(list) <= n
    /\ Len(list) = n \/ Len(list) = Cardinality(Improvements(df))
    /\ \A j \in Improvements(df) :
          (\A i \in 1..Len(list) : list[i] # df[j]) =>
              \A i \in 1..Len(list) : list[i].difference[1] <= df[j].difference[1]

\* C23: the summary chart lists, for each metric, only deltas of negative
\* difference, in ascending order of difference and at most 3 of them, the
\* summary workbook the same with at most 5, and no delta left out of a list
\* has a more negative difference than a listed one.
C23_SummaryListsTopImprovements ==
    /\ summary_image.written =>
          \A m \in Metrics : TopList(summary_image.sections[m], all_results[m], 3)
    /\ summary_excel.written =>
          \A m \in Metrics : TopList(summary_excel.sections[m], all_results[m], 5)

\* C23 witness: a metric has six improvements, some of equal size, a run has
\* written both files, the chart with three of them and the workbook with
\* five, the one left out of the workbook being a smaller improvement than
\* the first one listed.
C23_Witness ==
    /\ summary_image.written
    /\ summary_excel.written
    /\ \E m \in Metrics :
          /\ Cardinality(Improvements(all_results[m])) = 6
          /\ Len(summary_image.sections[m]) = 3
          /\ Len(summary_excel.sections[m]) = 5
          /\ \E j \in Improvements(all_results[m]) :
                /\ \A i \in 1..5 : summary_excel.sections[m][i] # all_results[m][j]
                /\ summary_excel.sections[m][1].difference[1]
                      < all_results[m][j].difference[1]

\* the smaller of two numbers
Least(a, b) == IF a <= b THEN a ELSE b

\* the rows of the file of category c that improve: first minus second is
\* positive
ImprovingRows(c) ==
    {i \in 1..Len(category_df[c]) :
        category_df[c][i].first[1] - category_df[c][i].second[1] > 0}

\* the improvement of row i of category c
RowImprovement(c, i) == category_df[c][i].first[1] - category_df[c][i].second[1]

\* the entries of data[c] stand one for one for rows of the file: there is a
\* one-to-one choice of an improving row for every entry, with the entry's
\* name and the row's own improvement as its value, and no row left out
\* improves more than a chosen one
EntryPerRow(c) ==
    \E rows \in [1..Len(data[c]) -> ImprovingRows(c)] :
        /\ \A i, j \in 1..Len(data[c]) : i # j => rows[i] # rows[j]
        /\ \A i \in 1..Len(data[c]) :
              /\ data[c][i].name = category_df[c][rows[i]].clean
              /\ data[c][i].value = Num(RowImprovement(c, rows[i]))
        /\ \A j \in ImprovingRows(c) :
              (\A i \in 1..Len(data[c]) : rows[i] # j) =>
                  \A i \in 1..Len(data[c]) :
                      RowImprovement(c, rows[i]) >= RowImprovement(c, j)

\* C29: the dictionary read_excel_data returns for a category has one entry
\* for each of the rows with the largest positive improvements, 5 of them or
\* all if there are fewer, each under the Clean Name of its row and with the
\* improvement of that row, also when rows share a Clean Name.
C29_OneEntryPerTopRow ==
    pc = "read" =>
        \A c \in Categories :
            /\ Len(data[c]) = Least(5, Cardinality(ImprovingRows(c)))
            /\ EntryPerRow(c)

\* no two of the improving rows of category c have the same Clean Name
DistinctNames(c) ==
    \A i, j \in ImprovingRows(c) :
        i # j => category_df[c][i].clean # category_df[c][j].clean

\* C29, the part that holds of the code: for a category whose improving rows
\* have different Clean Names the dictionary has one entry per top row.
C29_EntryPerRowOfDistinctNames ==
    pc = "read" =>
        \A c \in Categories :
            DistinctNames(c) =>
                /\ Len(data[c]) = Least(5, Cardinality(ImprovingRows(c)))
                /\ EntryPerRow(c)

\* C29, the failing call: two improving rows share a Clean Name and the
\* dictionary holds one entry for them, with the smaller improvement.
C29_SharedNameLosesRow ==
    /\ pc = "read"
    /\ \E c \in Categories :
          /\ Cardinality(ImprovingRows(c)) = 2
          /\ Len(data[c]) = 1
          /\ \E j \in ImprovingRows(c) : data[c][1].value[1] < RowImprovement(c, j)

\* the deltas of the frame returned by compare_metrics of analytics.py
AnalyticsTuples ==
    {<<result_df[n].repo, result_df[n].branch, result_df[n].clean,
       result_df[n].first, result_df[n].second, result_df[n].difference>> :
        n \in 1..Len(result_df)}

\* the deltas of the frame returned by compare_metrics of generate.py
GenerateTuples ==
    {<<generate_df[n].repo, generate_df[n].branch, generate_df[n].clean,
       generate_df[n].march, generate_df[n].april, generate_df[n].difference>> :
        n \in 1..Len(generate_df)}

\* C30: on the same two record sets, metric and min_diff, compare_metrics
\* of generate.py raises exactly when compare_metrics of analytics.py does,
\* and when they return the two frames have the same number of rows and the
\* same set of (repository, branch, clean name, before, after, difference).
C30_VariantsAgree ==
    /\ pc \notin {"generate_raised", "analytics_raised"}
    /\ pc = "both_returned" =>
          /\ Len(generate_df) = Len(result_df)
          /\ GenerateTuples = AnalyticsTuples

\* C30 witness: both calls have returned two deltas, in different orders.
C30_Witness ==
    /\ pc = "both_returned"
    /\ Len(result_df) = 2
    /\ generate_df[1].repo = result_df[2].repo
    /\ generate_df[1].branch = result_df[2].branch
    /\ generate_df[1] # generate_df[2]

====
